---- MODULE Spec2Model ----
(***************************************************************************)
(* A model of the stargate home-automation engine: the gateway loader,     *)
(* the connection threads and their watchdog, the timer, and the state     *)
(* caches of the Lutron and DSC gateways.                                  *)
(*                                                                         *)
(* Every subsystem has its own variables, its own initial predicate and    *)
(* its own specification; the actions of one subsystem leave the variables *)
(* of the others unchanged.                                                *)
(***************************************************************************)
EXTENDS Integers, Sequences, FiniteSets, TLC

VARIABLES
    \* ---- gateways.load_all ------------------------------------------------
    gateways_config,   \* name -> [disabled, deps]: the configuration passed in
    ld_pc,             \* position of load_all: "load", "graph", "init", "report", "done"
    gateway_info_map,  \* the set of names that have an entry in gateway_info_map
    deps,              \* name -> gateway_info.deps (shrinks as dependencies load)
    reverse_deps,      \* name -> gateway_info.reverse_deps
    ready,             \* list of names, popped from the end
    pending,           \* the pending list (its order is never read)
    house_gateways,    \* the keys of sg_house.gateways
    init_log,          \* history: one record per call of module.init
    \* ---- connections: one DscPanelServer session and the SgWatchdog ---------
    main_pc,           \* the thread that builds the gateway: "start", "connected", "failed"
    sock_gen,          \* which socket delegate.socket is: the n-th successful connect (0: none)
    sock_closed,       \* close() has been called on that socket
    conn,              \* the TCP connection behind it: "up" or "broken"
    listener_pc,       \* ListenerThread of that socket: "none", "run", "done"
    sender_pc,         \* SenderThread of that socket: "none", "run", "done"
    send_queue,        \* delegate.send_queue
    wire,              \* what the sender wrote to that socket: records [cmd, complete]
    enq_log,           \* history: the lines the send calls put on send_queue, in order
    shorts,            \* history: short writes on that socket
    failures,          \* history: failures the environment has caused so far
    watches,           \* SgWatchdog.watches: the sockets registered
    wd_pc,             \* SgWatchdog.run: "snapshot" or "select"
    wd_list,           \* its socket_list
    pipe,              \* bytes waiting in the wake pipe
    cleanup,           \* socket -> the CleanupAndRestart started for it: [pc, delay]
    started,           \* history: socket -> CleanupAndRestart tasks started for it
    delays_log,        \* history: the delays the newest CleanupAndRestart has slept
    reconnect_log,     \* history: the newest call of the reconnect thunk, in a list
    \* ---- timer.SgTimer ----------------------------------------------------
    now,               \* time.time()
    timers,            \* SgTimer.timers: list of events [token, when]
    next_token,        \* TimerEvent.next_token
    timers_changed,    \* the Event flag
    disp_pc,           \* TimerDispatcher.run: "clear", "compute", "wait", "collect", "invoke"
    disp_deadline,     \* when its wait times out (None: never)
    ready_list,        \* invoke_ready: the handlers collected and not yet called
    fired,             \* history: tokens of the handlers called, in order
    whens,             \* history: token -> fire time of the event
    cancelled,         \* history: tokens passed to cancel_event
    cancelled_early,   \* history: tokens cancelled before their fire time
    \* ---- radiora2.ra_repeater.OutputCache -----------------------------------
    output_levels,     \* output iid -> level or Stale
    button_states,     \* device iid -> state of its button or Stale
    led_states,        \* device iid -> state of its LED or Stale
    refreshing,        \* set of iids with a refresh in progress
    ra_published,      \* history: the newest on_user_action of the cache, in a list
    refresh_count,     \* history: iid -> refresh requests made
    record_count,      \* history: iid -> record calls made
    owed,              \* history: iid -> refresh requests no record has answered yet
    \* ---- powerseries.dsc_panel.DscPanelCache ---------------------------------
    zone_status,       \* zone -> Unset, Stale, 0 or 1
    partition_status,  \* partition -> Unset, Stale or a PartitionStatus
    mark_pc,           \* mark_all_stale: entries already marked by the running call
    dsc_published,     \* history: the newest on_user_action of the cache, in a list
    marks,             \* history: calls of mark_all_stale that have returned
    recorded_since,    \* history: entities recorded since the last call returned
    \* ---- powerseries.dsc_panel: encoding and decoding of one frame -----------
    codec_pc,          \* "encode", "decode" or "done"
    codec_command,     \* the command number passed to _encode_dsc_command
    codec_data,        \* the data passed to it: a string, as the list of its bytes
    codec_frame,       \* the frame it returned
    codec_decoded,     \* what _receive_dsc_cmd makes of that frame: [num, data, accepted]
    \* ---- powerseries: the panel reader and the reflector ----------------------
    rd_listener,       \* the listener thread of the panel connection: "run" or "dead"
    children,          \* ReflectorParentThread.children: list of [id, authenticated]
    parent_pc,         \* ReflectorParentThread.run: "accept", or "child" inside child.run()
    next_child,        \* history: the number of the next connection accepted
    auth_ok,           \* history: the children that have sent 005 with the password
    rd_last,           \* history: what became of the newest panel frame, in a list
    rf_last,           \* history: what became of the newest line of a child, in a list
    \* ---- synther: the Delay rule and its timer events -------------------------
    dl_now,            \* time.time(), in whole seconds
    dl_button,         \* ra_button.get_button_state(): the button is pressed
    dl_pressed,        \* state.pressed
    dl_timer_token,    \* state.timer_token, None when there is none
    dl_timers,         \* SgTimer.timers: list of [token, when]
    dl_next_token,     \* TimerEvent.next_token
    dl_ready,          \* invoke_ready: the handlers collected and not yet returned from
    dl_pc,             \* the dispatcher: "wait", "invoke", or "clear" inside on_delay
    dl_presses,        \* history: the presses handled, [at, released, token]
    dl_actions,        \* history: the output actions performed, [token, at]
    \* ---- synther: the Paranoid rule and its timer events ----------------------
    pa_now,            \* time.time(), in whole seconds
    pa_bad,            \* watched_dev_in_bad_state()
    pa_timer_token,    \* state.timer_token, None when there is none
    pa_bad_since,      \* state.bad_since
    pa_warned_at,      \* state.warned_at
    pa_timers,         \* SgTimer.timers: list of [token, when]
    pa_next_token,     \* TimerEvent.next_token
    pa_ready,          \* invoke_ready: the handlers collected and not yet returned from
    pa_pc,             \* the dispatcher: "wait", "invoke", or "send" inside on_delay
    pa_period,         \* history: the number of bad periods begun
    pa_period_start,   \* history: when the device entered the bad state it is in
    pa_sent,           \* history: the notifications sent, [kind, at, period, bad_for]
    \* ---- synther: the Bridge rule ----------------------------------------------
    br_zone_open,      \* dsc_zone.is_open(), as the panel cache has it
    br_level,          \* ra_dev.get_level(), as the repeater cache has it
    br_ra_cmds,        \* the set-level commands sent to the repeater and not yet reported
    br_events,         \* history: the number of change events handled
    br_dsc_cmds,       \* history: the number of DSC user commands issued
    br_last,           \* history: the newest Lutron event, [cause, on, open, issued], in a list
    \* ---- events.SgEvents and the persistence log it writes to -------------------
    bus_subscribers,   \* SgEvents.subscribers: device -> list of handlers
    bus_call,          \* the current or newest on_device_state_change call
    device_events,     \* device -> its events in the persistence log, oldest first
    \* ---- persistence.SgPersistence ----------------------------------------------
    device_map,        \* the rows of table device_map; the row number is sg_device_id
    dm_lock,           \* the owner of SgPersistence._lock, 0 when free
    dm_thread,         \* thread -> its get_device_id call: [pc, gateway_id, gateway_device_id, row]
    dm_returned,       \* history: the [gateway_id, gateway_device_id, id] get_device_id returned
    p_day,             \* the day of the clock
    history_buckets,   \* change_history_buckets: sg_device_id -> bucket -> num_changes
    changed_on,        \* history: sg_device_id -> the days of its state changes
    sig_handler,       \* signal -> the module whose handler is installed
    sig_last,          \* the process and the newest signal: [running, signum, checkpointed, known]
    \* ---- connections.CrlfSocketBuffer -------------------------------------------
    leftovers,         \* CrlfSocketBuffer.leftovers
    rl_calls,          \* history of read_lines: [received, lines, before, chunk, returned, closed]
    getter,             \* a thread in OutputCache.get_output_level, get_button_state or get_led_state
    \* ---- powerseries.dsc_panel.DscPanelServer.connect, statement by statement ----
    ss_pc,              \* connect(): "none" (not running), "queue", "login", "mark", "status"
    ss_socket,          \* delegate.socket: the n-th socket object made (0: none)
    ss_closed,          \* the sockets that have been closed
    ss_queue,           \* delegate.send_queue: items [cmd, on], on = delegate.socket at the put
    ss_sender,          \* the newest SenderThread: [sock, pc], pc "none", "run" or "done"
    ss_wire,            \* socket -> the items written to it, in order
    ss_cleanup,         \* who calls connect(): "first", "failed", or the cleanup task: "none", "join", "reconnect", "connecting"
    ss_hist,            \* history: [calls, connects, marked, status_marked, dropped]
    \* ---- connections.SgWatchdog.add, statement by statement -------------------
    wd_adds,            \* thread -> where it is in SgWatchdog.add: "idle", "poke", "done"
    \* ---- dsc_reflector: Reflector.to_children, child by child -------------------
    fwd,                \* the panel's listener in to_children: [pc, idx, begun, sent, count]
    \* ---- sg_house.StargateHouse._add_devstates_for_ordering ---------------------
    devstate_order,     \* devstate_order_by_tc[tc] for one devclass:devtype
    ds_hist,            \* history: [count, supplied, before]
    \* ---- synthesizer.Bridge with the two devices it binds, as a closed loop ------
    bl_lutron,          \* the level the Lutron output really has
    bl_zone,            \* whether the DSC zone really is open
    bl_level,           \* the level in the repeater's cache (what ra_dev.is_on reads)
    bl_open,            \* the zone state in the panel's cache (what dsc_zone.is_open reads)
    bl_ra_in,           \* level reports of the repeater its reader thread has not handled yet
    bl_dsc_in,          \* zone reports of the panel its reader thread has not handled yet
    bl_ra_out,          \* set-level commands the repeater has not carried out yet
    bl_dsc_out,         \* user commands the panel has not carried out yet: the rules that sent them
    bl_hist             \* history: rule -> [changed, cmds]

loaderVars == <<gateways_config, ld_pc, gateway_info_map, deps, reverse_deps,
                ready, pending, house_gateways, init_log>>

connVars == <<main_pc, sock_gen, sock_closed, conn, listener_pc, sender_pc, send_queue,
              wire, enq_log, shorts, failures, watches, wd_pc, wd_list, pipe, cleanup,
              started, delays_log, reconnect_log>>

timerVars == <<now, timers, next_token, timers_changed, disp_pc, disp_deadline, ready_list,
               fired, whens, cancelled, cancelled_early>>

raVars == <<output_levels, button_states, led_states, refreshing, ra_published,
            refresh_count, record_count, owed>>

dscVars == <<zone_status, partition_status, mark_pc, dsc_published, marks, recorded_since>>

codecVars == <<codec_pc, codec_command, codec_data, codec_frame, codec_decoded>>

readerVars == <<rd_listener, children, parent_pc, next_child, auth_ok, rd_last, rf_last>>

delayVars == <<dl_now, dl_button, dl_pressed, dl_timer_token, dl_timers, dl_next_token,
               dl_ready, dl_pc, dl_presses, dl_actions>>

paranoidVars == <<pa_now, pa_bad, pa_timer_token, pa_bad_since, pa_warned_at, pa_timers,
                  pa_next_token, pa_ready, pa_pc, pa_period, pa_period_start, pa_sent>>

bridgeVars == <<br_zone_open, br_level, br_ra_cmds, br_events, br_dsc_cmds, br_last>>

busVars == <<bus_subscribers, bus_call, device_events>>

persistVars == <<device_map, dm_lock, dm_thread, dm_returned, p_day, history_buckets,
                 changed_on, sig_handler, sig_last>>

bufferVars == <<leftovers, rl_calls>>

getVars == <<getter>>

sessVars == <<ss_pc, ss_socket, ss_closed, ss_queue, ss_sender, ss_wire, ss_cleanup,
              ss_hist>>

wdaVars == <<wd_adds>>

fwdVars == <<fwd>>

dsVars == <<devstate_order, ds_hist>>

loopVars == <<bl_lutron, bl_zone, bl_level, bl_open, bl_ra_in, bl_dsc_in, bl_ra_out,
              bl_dsc_out, bl_hist>>

vars == <<loaderVars, connVars, timerVars, raVars, dscVars, codecVars, readerVars, delayVars, paranoidVars, bridgeVars, busVars, persistVars, bufferVars, getVars, sessVars, wdaVars, fwdVars, dsVars, loopVars>>

\* ---------------------------------------------------------------------------
\* General helpers
\* ---------------------------------------------------------------------------
Min(a, b) == IF a < b THEN a ELSE b

\* All orders in which the elements of a finite set can be listed.
Perms(S) ==
    {s \in [1..Cardinality(S) -> S] : \A i, j \in 1..Cardinality(S) : i # j => s[i] # s[j]}

\* ===========================================================================
\* gateways.load_all
\* ===========================================================================
\* The gateway plugins of the repository that appear in the configuration.
Gateways == {"radiora2", "powerseries", "synther"}

\* A name that get_dependencies may return although no plugin is configured under it.
UnknownGateway == "unknown"

\* Largest dependency set a plugin reports.
MaxDeps == 2

DepSets == {s \in SUBSET (Gateways \cup {UnknownGateway}) : Cardinality(s) <= MaxDeps}

ConfigEntries ==
    {[disabled |-> TRUE, deps |-> {}]} \cup {[disabled |-> FALSE, deps |-> s] : s \in DepSets}

OtherThanLoader == UNCHANGED <<connVars, timerVars, raVars, dscVars, codecVars, readerVars, delayVars, paranoidVars, bridgeVars, busVars, persistVars, bufferVars, getVars, sessVars, wdaVars, fwdVars, dsVars, loopVars>>

LoaderStart ==
    /\ gateways_config \in [Gateways -> ConfigEntries]
    /\ ld_pc = "load"
    /\ gateway_info_map = {}
    /\ deps = [g \in Gateways |-> {}]
    /\ reverse_deps = [g \in Gateways |-> {}]
    /\ ready = <<>>
    /\ pending = {}
    /\ house_gateways = {}
    /\ init_log = <<>>

\* Phase 1: every configured gateway that is not disabled is imported and asked for
\* its dependencies; one whose import or get_dependencies raises gets no entry.
LoadModules ==
    /\ ld_pc = "load"
    /\ \E failed \in SUBSET {g \in Gateways : ~gateways_config[g].disabled} :
          /\ gateway_info_map' = {g \in Gateways : ~gateways_config[g].disabled} \ failed
          /\ deps' = [g \in Gateways |->
                        IF g \in gateway_info_map' THEN gateways_config[g].deps ELSE {}]
    /\ ld_pc' = "graph"
    /\ UNCHANGED <<gateways_config, reverse_deps, ready, pending, house_gateways, init_log>>
    /\ OtherThanLoader

\* `if gateway_info.deps:` of phase 2: has dependencies, so it starts pending.
HasDeps(d) == d # {}

\* Phase 2: reverse pointers towards the entries that exist, and the partition into
\* ready and pending.  The entries are visited in dictionary order, so the ready
\* list can come out in any order.
BuildGraph ==
    /\ ld_pc = "graph"
    /\ reverse_deps' = [t \in Gateways |->
                          IF t \in gateway_info_map
                          THEN {g \in gateway_info_map : HasDeps(deps[g]) /\ t \in deps[g]}
                          ELSE {}]
    /\ pending' = {g \in gateway_info_map : HasDeps(deps[g])}
    /\ \E order \in Perms({g \in gateway_info_map : ~HasDeps(deps[g])}) : ready' = order
    /\ ld_pc' = "init"
    /\ UNCHANGED <<gateways_config, gateway_info_map, deps, house_gateways, init_log>>
    /\ OtherThanLoader

\* A mutant of NoDepsLeft: a gateway is promoted as soon as one dependency loaded.
NoDepsLeftAfterAny(d) == TRUE

\* `if not source.deps:` of phase 3: the last dependency has just been removed.
NoDepsLeft(d) == d = {}

\* Phase 3, one turn of `while ready:`: pop a ready gateway and initialize it; when
\* init returns, register it with the house and remove it from the deps of its
\* reverse dependencies, promoting those that have none left; when init raises, go on
\* with the next one.
InitGateway ==
    /\ ld_pc = "init"
    /\ ready # <<>>
    /\ LET g == ready[Len(ready)]
           rest == SubSeq(ready, 1, Len(ready) - 1)
       IN  \E ok \in BOOLEAN :
             /\ init_log' = Append(init_log,
                                   [name |-> g, ok |-> ok, registered |-> house_gateways])
             /\ IF ~ok
                THEN /\ ready' = rest
                     /\ UNCHANGED <<deps, reverse_deps, pending, house_gateways>>
                ELSE LET newdeps == [s \in Gateways |->
                                       IF s \in reverse_deps[g] THEN deps[s] \ {g} ELSE deps[s]]
                         promoted == {s \in reverse_deps[g] : NoDepsLeft(newdeps[s])}
                     IN  /\ house_gateways' = house_gateways \cup {g}
                         /\ deps' = newdeps
                         /\ pending' = pending \ promoted
                         /\ \E order \in Perms(promoted) : ready' = rest \o order
                         /\ reverse_deps' = [reverse_deps EXCEPT ![g] = {}]
    /\ UNCHANGED <<gateways_config, ld_pc, gateway_info_map>>
    /\ OtherThanLoader

\* `while ready:` ends; whatever is still pending is reported and never initialized.
ReportPending ==
    /\ ld_pc = "init"
    /\ ready = <<>>
    /\ ld_pc' = "done"
    /\ UNCHANGED <<gateways_config, gateway_info_map, deps, reverse_deps, ready, pending,
                   house_gateways, init_log>>
    /\ OtherThanLoader

\* load_all has not been called: what the other specifications start from.
LoaderIdle ==
    /\ gateways_config = [g \in Gateways |-> [disabled |-> TRUE, deps |-> {}]]
    /\ ld_pc = "done"
    /\ gateway_info_map = {}
    /\ deps = [g \in Gateways |-> {}]
    /\ reverse_deps = [g \in Gateways |-> {}]
    /\ ready = <<>>
    /\ pending = {}
    /\ house_gateways = {}
    /\ init_log = <<>>

LoaderNext == LoadModules \/ BuildGraph \/ InitGateway \/ ReportPending

\* ---------------------------------------------------------------------------
\* C1: whenever init of a gateway is invoked, every gateway named in its dependency
\* set has already been initialized successfully and is registered in house.gateways
\* (so none of them is uninitialized, failed, disabled or absent).
C1_DepsInitializedFirst ==
    \A i \in DOMAIN init_log :
        /\ gateways_config[init_log[i].name].deps \subseteq init_log[i].registered
        /\ \A d \in gateways_config[init_log[i].name].deps :
              \E j \in 1..(i - 1) : init_log[j].name = d /\ init_log[j].ok

\* A gateway with two dependencies is initialized after both of them.
C1_Witness ==
    \E i \in DOMAIN init_log :
        /\ Cardinality(gateways_config[init_log[i].name].deps) = 2
        /\ init_log[i].ok

\* The dependencies of a configured gateway, as its plugin reports them.
ConfigDeps(g) == IF g \in Gateways THEN gateways_config[g].deps ELSE {}

\* The gateways g depends on, directly or through others (three plugins: chains of
\* at most three links).
TransitiveDeps(g) ==
    LET d1 == ConfigDeps(g)
        d2 == d1 \cup UNION {ConfigDeps(x) : x \in d1}
        d3 == d2 \cup UNION {ConfigDeps(x) : x \in d2}
    IN  d3

\* The gateways whose init was called, and those whose init raised.
InitCalled == {init_log[i].name : i \in DOMAIN init_log}
InitRaised == {init_log[i].name : i \in {j \in DOMAIN init_log : ~init_log[j].ok}}

\* The gateways that can be initialized: loaded, and every dependency can be
\* initialized and its init does not raise.
Initializable ==
    LET step(S) == {g \in gateway_info_map :
                      ConfigDeps(g) \subseteq {d \in S : d \notin InitRaised}}
    IN  step(step(step({})))

\* C26: a gateway whose init raises is not registered in house.gateways, and no
\* gateway that depends on it, directly or through others, is ever initialized;
\* a gateway that does not depend on it (and has no other broken dependency) is
\* still initialized.
C26_FailedInitCascades ==
    /\ \A g \in InitRaised : g \notin house_gateways
    /\ \A h \in InitCalled : TransitiveDeps(h) \cap InitRaised = {}
    /\ ld_pc = "done" /\ gateway_info_map # {} => Initializable \subseteq InitCalled

\* load_all has ended: the init of one gateway raised, a gateway that depends on it
\* was never initialized, and a third one that does not depend on it was.
C26_Witness ==
    /\ ld_pc = "done"
    /\ \E g \in InitRaised, h \in gateway_info_map \ InitCalled, k \in house_gateways :
          /\ g \in ConfigDeps(h)
          /\ g \notin TransitiveDeps(k)

\* ---------------------------------------------------------------------------
\* load_all is an ordinary function: the thread that called it keeps running it.
LoaderFairness == WF_loaderVars(LoaderNext)

\* How often init was called for g.
InitCount(g) == Cardinality({i \in DOMAIN init_log : init_log[i].name = g})

\* C38: no gateway is initialized more than once, and when load_all has ended every
\* loaded gateway whose dependencies, direct and transitive, all initialize
\* successfully has been initialized exactly once.
C38_InitializedOnce ==
    /\ \A g \in Gateways : InitCount(g) <= 1
    /\ ld_pc = "done" => \A g \in Initializable : InitCount(g) = 1

\* C38: load_all terminates for every configuration (cycles, self-dependencies and
\* dependencies on unknown gateways included), and initializes every gateway that
\* can be initialized exactly once and none more than once.
C38_TerminatesInitializedOnce == []C38_InitializedOnce /\ <>(ld_pc = "done")

\* load_all has ended for a configuration with a self-dependency, a cycle and an
\* unknown dependency, and has initialized the gateway outside of them.
C38_Witness ==
    /\ ld_pc = "done"
    /\ \E a, b \in gateway_info_map, c \in house_gateways :
          /\ a # b
          /\ {a, b} \subseteq ConfigDeps(a)
          /\ {a, UnknownGateway} \subseteq ConfigDeps(b)
          /\ ConfigDeps(c) = {}

\* ===========================================================================
\* connections: ListenerThread, SenderThread, CleanupAndRestart, SgWatchdog,
\* and the DscPanelServer session that uses them
\* ===========================================================================
\* Failures the environment causes in one run (a broken connection, a handler that
\* raises in the listener, a send that raises on a full buffer).
MaxFailures == 1

\* Lines the callers of send_dsc_command enqueue, besides the two that connect()
\* enqueues itself on every connection; the callers send on the first connection.
MaxSends == 1

\* Short writes on one connection.
MaxShort == 1

\* Reconnect attempts of one CleanupAndRestart that fail.
MaxAttempts == 7

\* send_dsc_command(005, password) and send_dsc_command(001) of connect().
LoginCmd == 5
StatusCmd == 1

\* The line a caller of _send_dsc_cmdline enqueues when log holds the lines enqueued
\* so far (a user command): only its being different from the others matters.
ClientCmd(log) == 70 + Len(log)

\* The '' that CleanupAndRestart puts on the queue.
Sentinel == -1

Sockets == 1..(MaxFailures + 1)

OtherThanConn == UNCHANGED <<loaderVars, timerVars, raVars, dscVars, codecVars, readerVars, delayVars, paranoidVars, bridgeVars, busVars, persistVars, bufferVars, getVars, sessVars, wdaVars, fwdVars, dsVars, loopVars>>

NoCleanup == [pc |-> "none", delay |-> 0]

\* SgWatchdog() has been constructed and started (StargateHouse.__init__ starts it
\* before the gateways are loaded); no gateway has connected yet, and the thread
\* that builds the gateway is at pc.
ConnBefore(pc) ==
    /\ main_pc = pc
    /\ sock_gen = 0
    /\ sock_closed = FALSE
    /\ conn = "up"
    /\ listener_pc = "none"
    /\ sender_pc = "none"
    /\ send_queue = <<>>
    /\ wire = <<>>
    /\ enq_log = <<>>
    /\ shorts = 0
    /\ failures = 0
    /\ watches = {}
    /\ wd_pc = "snapshot"
    /\ wd_list = {}
    /\ pipe = 0
    /\ cleanup = [g \in Sockets |-> NoCleanup]
    /\ started = [g \in Sockets |-> 0]
    /\ delays_log = <<>>
    /\ reconnect_log = <<>>

ConnStart == ConnBefore("start")

\* No session is ever made: what the other specifications start from.
ConnIdle == ConnBefore("failed")

\* DscPanelServer.connect() when socket.connect succeeds: a new socket, a listener, a
\* new queue, a sender, the registration with the watchdog (which writes a byte to
\* the wake pipe), then the login and the global status request are enqueued.
ConnectSucceeds ==
    /\ sock_gen' = sock_gen + 1
    /\ sock_closed' = FALSE
    /\ conn' = "up"
    /\ listener_pc' = "run"
    /\ sender_pc' = "run"
    /\ send_queue' = <<LoginCmd, StatusCmd>>
    /\ enq_log' = <<LoginCmd, StatusCmd>>
    /\ wire' = <<>>
    /\ shorts' = 0
    /\ watches' = watches \cup {sock_gen + 1}
    /\ pipe' = pipe + 1

\* The first connect(), called while the gateway is constructed: when it raises the
\* gateway is not loaded and there is no session.
InitialConnect ==
    /\ main_pc = "start"
    /\ \/ /\ ConnectSucceeds
          /\ main_pc' = "connected"
       \/ /\ main_pc' = "failed"
          /\ UNCHANGED <<sock_gen, sock_closed, conn, listener_pc, sender_pc, send_queue,
                         enq_log, wire, shorts, watches, pipe>>
    /\ UNCHANGED <<failures, wd_pc, wd_list, cleanup, started, delays_log, reconnect_log>>
    /\ OtherThanConn

\* The peer closes the connection, or the network breaks it.
ConnBreaks ==
    /\ main_pc = "connected"
    /\ conn = "up"
    /\ ~sock_closed
    /\ listener_pc = "run"
    /\ failures < MaxFailures
    /\ conn' = "broken"
    /\ failures' = failures + 1
    /\ UNCHANGED <<main_pc, sock_gen, sock_closed, listener_pc, sender_pc, send_queue, wire,
                   enq_log, shorts, watches, wd_pc, wd_list, pipe, cleanup, started,
                   delays_log, reconnect_log>>
    /\ OtherThanConn

\* _send_dsc_cmdline, on any thread: put the line on the current queue.
ClientSend ==
    /\ main_pc = "connected"
    /\ Len(enq_log) < MaxSends + 2
    /\ sock_gen = 1
    /\ send_queue' = Append(send_queue, ClientCmd(enq_log))
    /\ enq_log' = Append(enq_log, ClientCmd(enq_log))
    /\ UNCHANGED <<main_pc, sock_gen, sock_closed, conn, listener_pc, sender_pc, wire, shorts,
                   failures, watches, wd_pc, wd_list, pipe, cleanup, started, delays_log,
                   reconnect_log>>
    /\ OtherThanConn

\* ListenerThread.run leaves its loop: select reports the socket readable and recv
\* returns nothing or raises because the connection is broken, or select raises
\* because the sender has closed the socket.  It closes the socket and ends.
ListenerExits ==
    /\ listener_pc = "run"
    /\ conn = "broken" \/ sock_closed
    /\ listener_pc' = "done"
    /\ sock_closed' = TRUE
    /\ UNCHANGED <<main_pc, sock_gen, conn, sender_pc, send_queue, wire, enq_log, shorts,
                   failures, watches, wd_pc, wd_list, pipe, cleanup, started, delays_log,
                   reconnect_log>>
    /\ OtherThanConn

\* ListenerThread.run leaves its loop although the connection is up:
\* receive_from_listener raises on a line it cannot handle.
ListenerRaises ==
    /\ listener_pc = "run"
    /\ conn = "up" /\ ~sock_closed
    /\ failures < MaxFailures
    /\ listener_pc' = "done"
    /\ sock_closed' = TRUE
    /\ failures' = failures + 1
    /\ UNCHANGED <<main_pc, sock_gen, conn, sender_pc, send_queue, wire, enq_log, shorts,
                   watches, wd_pc, wd_list, pipe, cleanup, started, delays_log, reconnect_log>>
    /\ OtherThanConn

\* A mutant of Dequeue: the sender takes the newest line.
DequeueNewest(q) == [cmd |-> q[Len(q)], rest |-> SubSeq(q, 1, Len(q) - 1)]

\* Queue.get(): the oldest line, and what stays queued.
Dequeue(q) == [cmd |-> Head(q), rest |-> Tail(q)]

\* One turn of SenderThread.run: take a line from the queue and send it with CRLF.
\* send raises when the socket is closed or the connection broken, and may raise on
\* a full buffer; then the sender closes the socket and ends.  Otherwise the socket
\* takes the whole line, or only a part of it, which is logged and nothing else.
SenderSends ==
    /\ sender_pc = "run"
    /\ send_queue # <<>>
    /\ LET got == Dequeue(send_queue)
       IN  /\ send_queue' = got.rest
           /\ \/ /\ sock_closed \/ conn = "broken"
                 /\ sender_pc' = "done"
                 /\ sock_closed' = TRUE
                 /\ UNCHANGED <<wire, shorts, failures>>
              \/ /\ ~sock_closed /\ conn = "up"
                 /\ failures < MaxFailures
                 /\ sender_pc' = "done"
                 /\ sock_closed' = TRUE
                 /\ failures' = failures + 1
                 /\ UNCHANGED <<wire, shorts>>
              \/ /\ ~sock_closed /\ conn = "up"
                 /\ wire' = Append(wire, [cmd |-> got.cmd, complete |-> TRUE])
                 /\ UNCHANGED <<sender_pc, sock_closed, shorts, failures>>
              \/ /\ ~sock_closed /\ conn = "up"
                 /\ shorts < MaxShort
                 /\ wire' = Append(wire, [cmd |-> got.cmd, complete |-> FALSE])
                 /\ shorts' = shorts + 1
                 /\ UNCHANGED <<sender_pc, sock_closed, failures>>
    /\ UNCHANGED <<main_pc, sock_gen, conn, listener_pc, enq_log, watches, wd_pc, wd_list,
                   pipe, cleanup, started, delays_log, reconnect_log>>
    /\ OtherThanConn

\* The socket object registered as g has been closed.  Every socket before the
\* current one was closed before the connect() that replaced it was called.
SocketClosed(g) == g < sock_gen \/ (g = sock_gen /\ sock_closed)

\* The thread with this pc, of the threads registered with socket g, has ended.
ThreadOf(g, pc) == IF g = sock_gen THEN pc ELSE "done"

\* SgWatchdog.run, `with self.lock: socket_list = self.watches.keys()`.
WdSnapshot ==
    /\ wd_pc = "snapshot"
    /\ wd_list' = watches
    /\ wd_pc' = "select"
    /\ UNCHANGED <<main_pc, sock_gen, sock_closed, conn, listener_pc, sender_pc, send_queue,
                   wire, enq_log, shorts, failures, watches, pipe, cleanup, started,
                   delays_log, reconnect_log>>
    /\ OtherThanConn

\* detect_bad_sockets: the sockets of the list whose probe raises EBADF.
DetectBadSockets(socket_list) == {g \in socket_list : SocketClosed(g)}

\* A mutant of WatchesAfterPop: the bad sockets stay registered.
WatchesKept(w, bad) == w

\* `self.watches.pop(bad)` for every bad socket.
WatchesAfterPop(w, bad) == w \ bad

\* SgWatchdog.run, the select and what follows it.  select raises EBADF when a
\* socket of the list is closed, before the call or during it (lines 172-178 say so);
\* then every closed socket of the list is unregistered and a CleanupAndRestart is
\* started with its handler.  Otherwise select returns when the wake pipe is
\* readable, and one byte is read from it.  Otherwise the watchdog stays blocked.
WdSelect ==
    /\ wd_pc = "select"
    /\ LET bad == DetectBadSockets(wd_list)
       IN  \/ /\ bad # {}
              /\ watches' = WatchesAfterPop(watches, bad)
              /\ cleanup' = [g \in Sockets |->
                               IF g \in bad THEN [pc |-> "join_listener", delay |-> 2]
                               ELSE cleanup[g]]
              /\ started' = [g \in Sockets |->
                               IF g \in bad THEN Min(started[g] + 1, 2) ELSE started[g]]
              /\ delays_log' = <<>>
              /\ UNCHANGED pipe
           \/ /\ bad = {}
              /\ pipe > 0
              /\ pipe' = pipe - 1
              /\ UNCHANGED <<watches, cleanup, started, delays_log>>
    /\ wd_pc' = "snapshot"
    /\ UNCHANGED <<main_pc, sock_gen, sock_closed, conn, listener_pc, sender_pc, send_queue,
                   wire, enq_log, shorts, failures, wd_list, reconnect_log>>
    /\ OtherThanConn

\* A mutant of ThreadExited: join returns at once.
ThreadNotAwaited(pc) == TRUE

\* `t.join()` returns: the thread has ended.
ThreadExited(pc) == pc = "done"

\* A mutant of QueueAfterPoke: nothing is put on the queue.
QueueNotPoked(q) == q

\* `t.delegate.send_queue.put('')`.
QueueAfterPoke(q) == Append(q, Sentinel)

\* CleanupAndRestart.run, first turn of `for t in self.threads`: join the listener;
\* second turn up to its join: put '' on the queue of the sender.
CleanupJoinListener(g) ==
    /\ cleanup[g].pc = "join_listener"
    /\ ThreadExited(ThreadOf(g, listener_pc))
    /\ send_queue' = QueueAfterPoke(send_queue)
    /\ cleanup' = [cleanup EXCEPT ![g].pc = "join_sender"]
    /\ UNCHANGED <<main_pc, sock_gen, sock_closed, conn, listener_pc, sender_pc, wire, enq_log,
                   shorts, failures, watches, wd_pc, wd_list, pipe, started, delays_log,
                   reconnect_log>>
    /\ OtherThanConn

\* CleanupAndRestart.run: the join of the sender returns.
CleanupJoinSender(g) ==
    /\ cleanup[g].pc = "join_sender"
    /\ ThreadExited(ThreadOf(g, sender_pc))
    /\ cleanup' = [cleanup EXCEPT ![g].pc = "retry"]
    /\ UNCHANGED <<main_pc, sock_gen, sock_closed, conn, listener_pc, sender_pc, send_queue,
                   wire, enq_log, shorts, failures, watches, wd_pc, wd_list, pipe, started,
                   delays_log, reconnect_log>>
    /\ OtherThanConn

\* A mutant of NextDelay: the delay is not capped.
NextDelayUncapped(delay) == delay * 2

\* `delay = delay * backoff_factor; if delay > max_delay: delay = max_delay`.
NextDelay(delay) == IF delay * 2 > 120 THEN 120 ELSE delay * 2

\* CleanupAndRestart.run, one turn of `while True`: sleep for the delay and call the
\* reconnect thunk, which is DscPanelServer.connect.  When it returns the task ends;
\* when it raises the delay grows and the loop goes on.
CleanupAttempt(g) ==
    /\ cleanup[g].pc = "retry"
    /\ delays_log' = Append(delays_log, cleanup[g].delay)
    /\ \E ok \in BOOLEAN :
          /\ IF ok
             THEN /\ sock_gen < MaxFailures + 1
                  /\ ConnectSucceeds
                  /\ cleanup' = [cleanup EXCEPT ![g].pc = "done"]
             ELSE /\ Len(delays_log) < MaxAttempts
                  /\ cleanup' = [cleanup EXCEPT ![g].delay = NextDelay(@)]
                  /\ UNCHANGED <<sock_gen, sock_closed, conn, listener_pc, sender_pc,
                                 send_queue, wire, enq_log, shorts, watches, pipe>>
          /\ reconnect_log' = <<[socket |-> g, ok |-> ok,
                                 listener |-> ThreadOf(g, listener_pc),
                                 sender |-> ThreadOf(g, sender_pc),
                                 registered |-> ok /\ sock_gen' \in watches']>>
    /\ UNCHANGED <<main_pc, failures, wd_pc, wd_list, started>>
    /\ OtherThanConn

ConnNext ==
    \/ InitialConnect
    \/ ConnBreaks
    \/ ClientSend
    \/ ListenerExits
    \/ ListenerRaises
    \/ SenderSends
    \/ WdSnapshot
    \/ WdSelect
    \/ \E g \in Sockets : CleanupJoinListener(g)
    \/ \E g \in Sockets : CleanupJoinSender(g)
    \/ \E g \in Sockets : CleanupAttempt(g)

\* The threads of the program are scheduled fairly; the environment (failures, the
\* callers of send) is not. These actions change the connection's variables only.
ConnFairness ==
    /\ WF_connVars(ListenerExits)
    /\ WF_connVars(SenderSends)
    /\ WF_connVars(WdSnapshot)
    /\ WF_connVars(WdSelect)
    /\ \A g \in Sockets : WF_connVars(CleanupJoinListener(g))
    /\ \A g \in Sockets : WF_connVars(CleanupJoinSender(g))
    /\ \A g \in Sockets : WF_connVars(CleanupAttempt(g))

\* ---------------------------------------------------------------------------
\* C2: on one connection the lines written to the socket are the lines the send
\* calls enqueued, in that order, each one whole and followed by CRLF, none
\* duplicated, reordered or skipped.
C2_WrittenInEnqueueOrder ==
    \A i \in DOMAIN wire :
        /\ i <= Len(enq_log)
        /\ wire[i] = [cmd |-> enq_log[i], complete |-> TRUE]

\* C3: the reconnect thunk is invoked only when the listener and the sender
\* registered with the failed socket have both ended.
C3_ThreadsEndedAtReconnect ==
    \A i \in DOMAIN reconnect_log :
        reconnect_log[i].listener = "done" /\ reconnect_log[i].sender = "done"

\* C3: the wait of a CleanupAndRestart for the threads always ends.
C3_WaitEnds ==
    \A g \in Sockets :
        (cleanup[g].pc \in {"join_listener", "join_sender"}) ~> (cleanup[g].pc = "retry")

\* C3: after the watchdog has detected a failed socket, the reconnect thunk is not
\* invoked until the listener and the sender of the session have ended, and the wait
\* for them always ends: a sender blocked on its empty queue is woken by the sentinel.
C3_ReconnectAfterThreadsEnd == []C3_ThreadsEndedAtReconnect /\ C3_WaitEnds

\* The sender is blocked on its empty queue when the cleanup puts the sentinel.
C3_Witness ==
    \E g \in Sockets :
        /\ cleanup[g].pc = "join_sender"
        /\ sender_pc = "run"
        /\ send_queue = <<Sentinel>>

\* C4: the n-th delay a CleanupAndRestart waits is min(2 * 2^(n-1), 120), so the
\* delays are 2, 4, 8, 16, 32, 64, 120, 120, ...: never above 120, never decreasing.
C4_BackoffDelays ==
    /\ \A n \in DOMAIN delays_log : delays_log[n] = Min(2 * 2^(n - 1), 120)
    /\ \A n \in DOMAIN delays_log : delays_log[n] <= 120
    /\ \A n \in DOMAIN delays_log : n > 1 => delays_log[n - 1] <= delays_log[n]

\* The cap is reached and kept: seven attempts have failed.
C4_Witness == Len(delays_log) = 8 /\ delays_log[7] = 120 /\ delays_log[8] = 120

\* C5: exactly one cleanup is started for a failed socket; a cleanup ends only with
\* a reconnect that succeeded; the socket of a successful reconnect is registered.
C5_OneCleanupAndReregistered ==
    /\ \A g \in Sockets : started[g] <= 1
    /\ \A g \in Sockets : cleanup[g].pc = "done" => sock_gen > g
    /\ \A g \in Sockets : cleanup[g].pc = "retry" => g \notin watches /\ sock_gen = g
    /\ \A i \in DOMAIN reconnect_log : reconnect_log[i].ok => reconnect_log[i].registered

\* C5: a registered socket that is closed gets its cleanup started.
C5_FailureDetected ==
    \A g \in Sockets : (g \in watches /\ SocketClosed(g)) ~> (started[g] = 1)

MaxEvents == 2

\* Largest delay passed to add_event.
MaxDelay == 2

\* The clock stops here.
MaxTime == 3

\* Calls of cancel_event in one run.
MaxCancels == 1

\* `delay = None`, and a wait without timeout.
None == -1

OtherThanTimer == UNCHANGED <<loaderVars, connVars, raVars, dscVars, codecVars, readerVars, delayVars, paranoidVars, bridgeVars, busVars, persistVars, bufferVars, getVars, sessVars, wdaVars, fwdVars, dsVars, loopVars>>

\* SgTimer() has been constructed: no events, the dispatcher thread started.
TimerStart ==
    /\ now = 0
    /\ timers = <<>>
    /\ next_token = 1
    /\ timers_changed = FALSE
    /\ disp_pc = "clear"
    /\ disp_deadline = None
    /\ ready_list = <<>>
    /\ fired = <<>>
    /\ whens = <<>>
    /\ cancelled = {}
    /\ cancelled_early = {}

\* No SgTimer is used: what the other specifications start from.
TimerIdle == TimerStart

\* Time passes.
Tick ==
    /\ now < MaxTime
    /\ now' = now + 1
    /\ UNCHANGED <<timers, next_token, timers_changed, disp_pc, disp_deadline, ready_list,
                   fired, whens, cancelled, cancelled_early>>
    /\ OtherThanTimer

\* A mutant of AppendEvent: the new event goes to the front of the list.
PrependEvent(ts, event) == <<event>> \o ts

\* `self.timers.append(event)`.
AppendEvent(ts, event) == Append(ts, event)

\* add_event(delay, handler), under the lock: a new event with the next token, due
\* at now + delay, is appended, and the change flag is set.
AddEvent(delay) ==
    /\ next_token <= MaxEvents
    /\ timers' = AppendEvent(timers, [token |-> next_token, when |-> now + delay])
    /\ whens' = Append(whens, now + delay)
    /\ next_token' = next_token + 1
    /\ timers_changed' = TRUE
    /\ UNCHANGED <<now, disp_pc, disp_deadline, ready_list, fired, cancelled, cancelled_early>>
    /\ OtherThanTimer

\* A mutant of WithoutToken: cancel_event removes nothing.
WithoutNothing(ts, token) == ts

\* `filter(lambda event: event.token != token, self.timers)`.
WithoutToken(ts, token) == LET Other(e) == e.token # token IN SelectSeq(ts, Other)

\* cancel_event(token), under the lock: the events with this token leave the list,
\* and the change flag is set.  An unknown token removes nothing.
CancelEvent(token) ==
    /\ Cardinality(cancelled) < MaxCancels
    /\ token \notin cancelled
    /\ timers' = WithoutToken(timers, token)
    /\ timers_changed' = TRUE
    /\ cancelled' = cancelled \cup {token}
    /\ cancelled_early' =
          IF token < next_token /\ now < whens[token]
          THEN cancelled_early \cup {token} ELSE cancelled_early
    /\ UNCHANGED <<now, next_token, disp_pc, disp_deadline, ready_list, fired, whens>>
    /\ OtherThanTimer

\* TimerDispatcher.run, `timer.timers_changed.clear()`.
DispClear ==
    /\ disp_pc = "clear"
    /\ timers_changed' = FALSE
    /\ disp_pc' = "compute"
    /\ UNCHANGED <<now, timers, next_token, disp_deadline, ready_list, fired, whens,
                   cancelled, cancelled_early>>
    /\ OtherThanTimer

\* A mutant of TimeUntilNextEvent: the dispatcher always waits without timeout.
TimeUntilNever(ts, t) == None

\* time_until_next_event, under the lock: None for an empty list; otherwise the
\* time left until `event.when`, where event is the variable the loop over the list
\* has left behind, that is the last event of the list; not below 0.
TimeUntilNextEvent(ts, t) ==
    IF ts = <<>> THEN None
    ELSE IF ts[Len(ts)].when - t < 0 THEN 0 ELSE ts[Len(ts)].when - t

\* TimerDispatcher.run: the delay is computed and the wait on the flag begins.
DispCompute ==
    /\ disp_pc = "compute"
    /\ disp_deadline' =
          IF TimeUntilNextEvent(timers, now) = None THEN None
          ELSE now + TimeUntilNextEvent(timers, now)
    /\ disp_pc' = "wait"
    /\ UNCHANGED <<now, timers, next_token, timers_changed, ready_list, fired, whens,
                   cancelled, cancelled_early>>
    /\ OtherThanTimer

\* `timer.timers_changed.wait(delay)` returns: the flag is set, or the time is up.
DispWake ==
    /\ disp_pc = "wait"
    /\ timers_changed \/ (disp_deadline # None /\ now >= disp_deadline)
    /\ disp_pc' = "collect"
    /\ UNCHANGED <<now, timers, next_token, timers_changed, disp_deadline, ready_list, fired,
                   whens, cancelled, cancelled_early>>
    /\ OtherThanTimer

\* A mutant of ReadyEvents: the events that are due, newest first.
RECURSIVE ReadyEventsReversed(_, _)
ReadyEventsReversed(ts, t) ==
    IF ts = <<>> THEN <<>>
    ELSE IF ts[Len(ts)].when <= t
         THEN <<ts[Len(ts)]>> \o ReadyEventsReversed(SubSeq(ts, 1, Len(ts) - 1), t)
         ELSE ReadyEventsReversed(SubSeq(ts, 1, Len(ts) - 1), t)

\* `[... for event in self.timers if event.when <= now]`: the events that are due,
\* in the order of the list.
ReadyEvents(ts, t) == LET Due(e) == e.when <= t IN SelectSeq(ts, Due)

\* `[event for event in self.timers if event.when > now]`.
LaterEvents(ts, t) == LET NotDue(e) == e.when > t IN SelectSeq(ts, NotDue)

\* invoke_ready, the part under the lock: the handlers of the events that are due
\* are collected and those events leave the list.
DispCollect ==
    /\ disp_pc = "collect"
    /\ ready_list' = ReadyEvents(timers, now)
    /\ timers' = LaterEvents(timers, now)
    /\ disp_pc' = "invoke"
    /\ UNCHANGED <<now, next_token, timers_changed, disp_deadline, fired, whens, cancelled,
                   cancelled_early>>
    /\ OtherThanTimer

\* invoke_ready, the part without the lock: the next collected handler is called.
DispInvoke ==
    /\ disp_pc = "invoke"
    /\ ready_list # <<>>
    /\ fired' = Append(fired, Head(ready_list).token)
    /\ ready_list' = Tail(ready_list)
    /\ UNCHANGED <<now, timers, next_token, timers_changed, disp_pc, disp_deadline, whens,
                   cancelled, cancelled_early>>
    /\ OtherThanTimer

\* invoke_ready returns and the loop of the dispatcher starts over.
DispLoop ==
    /\ disp_pc = "invoke"
    /\ ready_list = <<>>
    /\ disp_pc' = "clear"
    /\ UNCHANGED <<now, timers, next_token, timers_changed, disp_deadline, ready_list, fired,
                   whens, cancelled, cancelled_early>>
    /\ OtherThanTimer

TimerNext ==
    \/ Tick
    \/ \E delay \in 0..MaxDelay : AddEvent(delay)
    \/ \E token \in 1..MaxEvents : CancelEvent(token)
    \/ DispClear
    \/ DispCompute
    \/ DispWake
    \/ DispCollect
    \/ DispInvoke
    \/ DispLoop

\* ---------------------------------------------------------------------------
\* C6: of two events that are not cancelled, the one with the strictly earlier fire
\* time has its handler invoked first, whatever the order of the add_event calls.
C6_EarlierFiresFirst ==
    \A i, j \in DOMAIN fired : i < j => whens[fired[i]] <= whens[fired[j]]

\* C7: two events with the same fire time, neither cancelled, have their handlers
\* invoked in the order of their add_event calls.
C7_EqualTimesFifo ==
    \A i, j \in DOMAIN fired :
        (i < j /\ whens[fired[i]] = whens[fired[j]]) => fired[i] < fired[j]

\* Two events with the same fire time have both fired.
C7_Witness ==
    \E i, j \in DOMAIN fired : i # j /\ whens[fired[i]] = whens[fired[j]]

\* C8: the handler of an event cancelled before its fire time is never invoked, and
\* the events with other tokens are not affected: every event that was added and
\* not cancelled is still in the list, or collected, or has had its handler invoked.
C8_CancelledNeverFires ==
    /\ \A i \in DOMAIN fired : fired[i] \notin cancelled_early
    /\ \A e \in DOMAIN ready_list : ready_list[e].token \notin cancelled_early
    /\ \A token \in 1..(next_token - 1) :
          \/ token \in cancelled
          \/ \E e \in DOMAIN timers : timers[e].token = token
          \/ \E e \in DOMAIN ready_list : ready_list[e].token = token
          \/ \E i \in DOMAIN fired : fired[i] = token

\* An event was cancelled early, and an event due no earlier has fired since.
C8_Witness ==
    \E token \in cancelled_early :
        \E i \in DOMAIN fired : whens[fired[i]] >= whens[token] /\ now >= whens[token]

\* ---------------------------------------------------------------------------
\* C28: whenever the dispatcher sleeps (it waits, events are pending and the change
\* flag is not set), the timeout of the wait ends no later than the earliest fire
\* time of the pending events.
C28_SleepEndsByEarliest ==
    (disp_pc = "wait" /\ ~timers_changed /\ timers # <<>>) =>
        /\ disp_deadline # None
        /\ \A e \in DOMAIN timers : disp_deadline <= timers[e].when

\* ---------------------------------------------------------------------------
\* Events added in one run with a fair dispatcher.
LiveEvents == 1

\* add_event in a run whose clock reaches every fire time: the clock of the model
\* stops at MaxTime, so no event is due later.
AddEventInTime(delay) ==
    /\ next_token <= LiveEvents
    /\ now + delay <= MaxTime
    /\ AddEvent(delay)

TimerLiveNext ==
    \/ Tick
    \/ \E delay \in 0..MaxDelay : AddEventInTime(delay)
    \/ \E token \in 1..MaxEvents : CancelEvent(token)
    \/ DispClear
    \/ DispCompute
    \/ DispWake
    \/ DispCollect
    \/ DispInvoke
    \/ DispLoop

\* Time passes and the dispatcher thread is scheduled; the callers of add_event
\* and cancel_event are not obliged to do anything.
TimerFairness ==
    /\ WF_timerVars(Tick)
    /\ WF_timerVars(DispClear)
    /\ WF_timerVars(DispCompute)
    /\ WF_timerVars(DispWake)
    /\ WF_timerVars(DispCollect)
    /\ WF_timerVars(DispInvoke)
    /\ WF_timerVars(DispLoop)

\* The handler of the event with this token has been invoked.
HasFired(token) == \E i \in DOMAIN fired : fired[i] = token

\* No handler has been invoked twice, and no event sits in two places.
C29_AtMostOnce ==
    /\ \A i, j \in DOMAIN fired : fired[i] = fired[j] => i = j
    /\ \A i \in DOMAIN fired :
          /\ \A e \in DOMAIN timers : timers[e].token # fired[i]
          /\ \A e \in DOMAIN ready_list : ready_list[e].token # fired[i]

\* An event that has been added has its handler invoked, unless it is cancelled.
C29_EventuallyFires ==
    \A token \in 1..MaxEvents :
        (token < next_token) ~> (HasFired(token) \/ token \in cancelled)

\* C29: the handler of every event that is added and never cancelled is invoked
\* exactly once, eventually, also when add_event and cancel_event run between the
\* dispatcher's clear, compute and wait: no wakeup is lost.
C29_FiresExactlyOnce == []C29_AtMostOnce /\ C29_EventuallyFires

\* The dispatcher had found the list empty and waited without timeout; an event
\* added then has woken it and its handler has been invoked.
C29_Witness ==
    \E i \in DOMAIN fired : fired[i] \notin cancelled /\ disp_deadline = None /\ disp_pc = "invoke"

\* ===========================================================================
\* gateways.radiora2.ra_repeater.OutputCache
\* ===========================================================================
\* Outputs and keypad devices that are watched; every device has one button and one
\* LED.
NumOutputs == 1
NumDevices == 1

\* Refresh requests and record calls for one iid in one run.
MaxRefreshes == 2
MaxRecords == 3

OutputIids == 1..NumOutputs
DeviceIids == (NumOutputs + 1)..(NumOutputs + NumDevices)
Iids == OutputIids \cup DeviceIids

\* 'stale', the value of a cache entry that has to be refreshed: no level, state or
\* status a device reports.
Stale == -1

\* Levels an output reports, and states of a button or LED.
Levels == {0, 100}
States == {0, 1}

OtherThanRa == UNCHANGED <<loaderVars, connVars, timerVars, dscVars, codecVars, readerVars, delayVars, paranoidVars, bridgeVars, busVars, persistVars, bufferVars, getVars, sessVars, wdaVars, fwdVars, dsVars, loopVars>>

\* OutputCache() has been constructed and watch_output and watch_device have been
\* called for the configured outputs and devices: everything is stale.
RaStart ==
    /\ output_levels = [i \in OutputIids |-> Stale]
    /\ button_states = [i \in DeviceIids |-> Stale]
    /\ led_states = [i \in DeviceIids |-> Stale]
    /\ refreshing = {}
    /\ ra_published = <<>>
    /\ refresh_count = [i \in Iids |-> 0]
    /\ record_count = [i \in Iids |-> 0]
    /\ owed = [i \in Iids |-> 0]

\* No Lutron cache is used: what the other specifications start from.
RaIdle == RaStart

\* `self.refreshing.add(iid)`.
MarkRefreshPending(r, iid) == r \cup {iid}

\* _broadcast_change: refresh is True when a refresh of the iid was in progress.
BroadcastRefresh(r, iid) == iid \in r

\* _broadcast_change: `self.refreshing.remove(iid)`, or nothing on KeyError.
AfterBroadcast(r, iid) == r \ {iid}

\* The history of a refresh request for iid.
CountRefresh(iid) ==
    /\ refresh_count' = [refresh_count EXCEPT ![iid] = @ + 1]
    /\ owed' = [owed EXCEPT ![iid] = @ + 1]
    /\ UNCHANGED record_count

\* The history of a record call for iid.
CountRecord(iid) ==
    /\ record_count' = [record_count EXCEPT ![iid] = @ + 1]
    /\ owed' = [owed EXCEPT ![iid] = IF @ > 0 THEN @ - 1 ELSE 0]
    /\ UNCHANGED refresh_count

\* _refresh_output(iid): the iid is marked and the query ?OUTPUT is sent.
RefreshOutput(iid) ==
    /\ refresh_count[iid] < MaxRefreshes
    /\ refreshing' = MarkRefreshPending(refreshing, iid)
    /\ CountRefresh(iid)
    /\ UNCHANGED <<output_levels, button_states, led_states, ra_published>>
    /\ OtherThanRa

\* _refresh_led(iid, lid): the iid is marked and the query ?DEVICE is sent.
RefreshLed(iid) ==
    /\ refresh_count[iid] < MaxRefreshes
    /\ refreshing' = MarkRefreshPending(refreshing, iid)
    /\ CountRefresh(iid)
    /\ UNCHANGED <<output_levels, button_states, led_states, ra_published>>
    /\ OtherThanRa

\* _refresh_button(iid, bid): the iid is marked, and since the repeater cannot be
\* asked, _record_button_state(iid, bid, 0) is called at once.
RefreshButton(iid) ==
    /\ refresh_count[iid] < MaxRefreshes
    /\ record_count[iid] < MaxRecords
    /\ button_states' = [button_states EXCEPT ![iid] = 0]
    /\ ra_published' = <<[iid |-> iid, state |-> 0, comp |-> "button",
                          refresh |-> BroadcastRefresh(MarkRefreshPending(refreshing, iid), iid)]>>
    /\ refreshing' = AfterBroadcast(MarkRefreshPending(refreshing, iid), iid)
    /\ refresh_count' = [refresh_count EXCEPT ![iid] = @ + 1]
    /\ record_count' = [record_count EXCEPT ![iid] = @ + 1]
    /\ UNCHANGED <<output_levels, led_states, owed>>
    /\ OtherThanRa

\* _record_output_level(iid, level): store the level and broadcast the change.
RecordOutput(iid, level) ==
    /\ record_count[iid] < MaxRecords
    /\ output_levels' = [output_levels EXCEPT ![iid] = level]
    /\ ra_published' = <<[iid |-> iid, state |-> level, comp |-> "output",
                          refresh |-> BroadcastRefresh(refreshing, iid)]>>
    /\ refreshing' = AfterBroadcast(refreshing, iid)
    /\ CountRecord(iid)
    /\ UNCHANGED <<button_states, led_states>>
    /\ OtherThanRa

\* _record_button_state(iid, bid, state): store the state and broadcast the change.
RecordButton(iid, state) ==
    /\ record_count[iid] < MaxRecords
    /\ button_states' = [button_states EXCEPT ![iid] = state]
    /\ ra_published' = <<[iid |-> iid, state |-> state, comp |-> "button",
                          refresh |-> BroadcastRefresh(refreshing, iid)]>>
    /\ refreshing' = AfterBroadcast(refreshing, iid)
    /\ CountRecord(iid)
    /\ UNCHANGED <<output_levels, led_states>>
    /\ OtherThanRa

\* _record_led_state(iid, lid, state): store the state; no change is broadcast, so
\* the set of refreshes in progress stays as it is.
RecordLed(iid, state) ==
    /\ record_count[iid] < MaxRecords
    /\ led_states' = [led_states EXCEPT ![iid] = state]
    /\ CountRecord(iid)
    /\ UNCHANGED <<output_levels, button_states, refreshing, ra_published>>
    /\ OtherThanRa

RaNext ==
    \/ \E iid \in OutputIids : RefreshOutput(iid)
    \/ \E iid \in DeviceIids : RefreshLed(iid)
    \/ \E iid \in DeviceIids : RefreshButton(iid)
    \/ \E iid \in OutputIids, level \in Levels : RecordOutput(iid, level)
    \/ \E iid \in DeviceIids, state \in States : RecordButton(iid, state)
    \/ \E iid \in DeviceIids, state \in States : RecordLed(iid, state)

\* ---------------------------------------------------------------------------
\* C9: after refresh requests and record calls (output, button or LED) for an iid
\* with at least as many records as refresh requests, no refresh of the iid is
\* pending and the next record for the iid is published with refresh=False.  Read
\* in favour of the claim: every refresh request has been followed by a record of
\* its own.
C9_NoRefreshPendingAfterRecords ==
    \A iid \in Iids :
        (record_count[iid] >= refresh_count[iid] /\ owed[iid] = 0)
            => ~BroadcastRefresh(refreshing, iid)

\* ---------------------------------------------------------------------------
\* A record for iid is stored and published in this step.
PublishesRecord(iid) ==
    \/ \E level \in Levels : iid \in OutputIids /\ RecordOutput(iid, level)
    \/ \E state \in States : iid \in DeviceIids /\ RecordButton(iid, state)

\* C30: a record is published with refresh=True exactly when it answers a refresh
\* query that is outstanding for its iid: with k queries outstanding the next k
\* records are published with refresh=True, and a record that arrives with none
\* outstanding is published with refresh=False.
C30_RefreshIffAnswersQuery ==
    [][\A iid \in Iids :
          PublishesRecord(iid) => (ra_published'[1].refresh <=> owed[iid] > 0)]_vars

\* ===========================================================================
\* gateways.powerseries.dsc_panel.DscPanelCache
\* ===========================================================================
\* Zones and partitions of the cache (64 and 8 in mark_all_stale).
NumZones == 2
NumPartitions == 1

\* Calls of mark_all_stale in one run.
MaxMarks == 2

\* A key the dictionary does not hold yet.
Unset == -2

\* PartitionStatus.READY, ARMED and BUSY; a zone is closed (0) or open (1).
PartitionStatuses == {0, 1, 2}
ZoneStatuses == {0, 1}

OtherThanDsc == UNCHANGED <<loaderVars, connVars, timerVars, raVars, codecVars, readerVars, delayVars, paranoidVars, bridgeVars, busVars, persistVars, bufferVars, getVars, sessVars, wdaVars, fwdVars, dsVars, loopVars>>

\* DscPanelCache() has been constructed: both dictionaries are empty.
DscStart ==
    /\ zone_status = [z \in 1..NumZones |-> Unset]
    /\ partition_status = [q \in 1..NumPartitions |-> Unset]
    /\ mark_pc = 0
    /\ dsc_published = <<>>
    /\ marks = 0
    /\ recorded_since = {}

\* No DSC cache is used: what the other specifications start from.
DscIdle == DscStart

\* mark_all_stale, one turn of its loops: the next zone, and after the zones the
\* next partition, becomes 'stale'.  connect() calls it on the thread that
\* connects, after the listener has been started, and nothing keeps the listener
\* from recording between two turns.
MarkStale ==
    /\ mark_pc > 0 \/ marks < MaxMarks
    /\ IF mark_pc < NumZones
       THEN /\ zone_status' = [zone_status EXCEPT ![mark_pc + 1] = Stale]
            /\ UNCHANGED partition_status
       ELSE /\ partition_status' = [partition_status EXCEPT ![mark_pc + 1 - NumZones] = Stale]
            /\ UNCHANGED zone_status
    /\ IF mark_pc + 1 = NumZones + NumPartitions
       THEN /\ mark_pc' = 0
            /\ marks' = marks + 1
            /\ recorded_since' = {}
       ELSE /\ mark_pc' = mark_pc + 1
            /\ UNCHANGED <<marks, recorded_since>>
    /\ UNCHANGED dsc_published
    /\ OtherThanDsc

\* _broadcast_change: `refresh = (old_status == 'stale')`.
BroadcastIsRefresh(old_status) == old_status = Stale

\* The history of a record of entity e: is it the first since the last call of
\* mark_all_stale returned, and does it happen while a call is running.
DscPublish(dev_type, dev_id, state, old_status) ==
    /\ dsc_published' = <<[dev_type |-> dev_type, dev_id |-> dev_id, state |-> state,
                           refresh |-> BroadcastIsRefresh(old_status),
                           first |-> <<dev_type, dev_id>> \notin recorded_since,
                           marking |-> mark_pc > 0,
                           marks |-> marks]>>
    /\ recorded_since' = IF mark_pc > 0 THEN recorded_since
                         ELSE recorded_since \cup {<<dev_type, dev_id>>}

\* _record_zone_status(zone_num, status), on the listener thread.  Before the first
\* mark_all_stale the dictionary has no entry and the lookup raises.
RecordZoneStatus(zone_num, status) ==
    /\ zone_status[zone_num] # Unset
    /\ zone_status' = [zone_status EXCEPT ![zone_num] = status]
    /\ DscPublish("zone", zone_num, status, zone_status[zone_num])
    /\ UNCHANGED <<partition_status, mark_pc, marks>>
    /\ OtherThanDsc

\* _record_partition_status(partition_num, status), on the listener thread.
RecordPartitionStatus(partition_num, status) ==
    /\ partition_status[partition_num] # Unset
    /\ partition_status' = [partition_status EXCEPT ![partition_num] = status]
    /\ DscPublish("partition", partition_num, status, partition_status[partition_num])
    /\ UNCHANGED <<zone_status, mark_pc, marks>>
    /\ OtherThanDsc

DscNext ==
    \/ MarkStale
    \/ \E z \in 1..NumZones, status \in ZoneStatuses : RecordZoneStatus(z, status)
    \/ \E q \in 1..NumPartitions, status \in PartitionStatuses :
          RecordPartitionStatus(q, status)

\* ---------------------------------------------------------------------------
\* C10: between two consecutive calls of mark_all_stale, for every zone and every
\* partition exactly the first recorded status is broadcast with refresh=True, and
\* every later record of that entity with refresh=False.
C10_FirstRecordIsRefresh ==
    \A i \in DOMAIN dsc_published :
        (~dsc_published[i].marking /\ dsc_published[i].marks >= 1)
            => dsc_published[i].refresh = dsc_published[i].first

\* ===========================================================================
\* gateways.powerseries.dsc_panel.DscPanelServer: the frames of the protocol
\* ===========================================================================
\* A string is the sequence of its bytes.

\* Longest data string that is encoded.
MaxDataLen == 2

\* The largest number that '%03d' writes with three digits.
MaxCommand == 999

\* The bytes of the data strings: '1', 'o', 'p' and 0xFF.
DataBytes == {49, 111, 112, 255}

\* The strings over a set of bytes, up to a length.
StringsUpTo(bytes, n) == UNION {[1..k -> bytes] : k \in 0..n}

\* No frame decoded yet.
NotDecoded == [num |-> 0, data |-> <<>>, accepted |-> FALSE]

\* '%d' % n for n >= 0.
RECURSIVE Decimal(_)
Decimal(n) == IF n < 10 THEN <<48 + n>> ELSE Decimal(n \div 10) \o <<48 + (n % 10)>>

\* '%03d' % command: the decimal digits, with zeros in front up to three characters.
RECURSIVE ZeroPad3(_)
ZeroPad3(s) == IF Len(s) >= 3 THEN s ELSE ZeroPad3(<<48>> \o s)

\* `checksum += ord(byte)` over a string.
RECURSIVE SumBytes(_)
SumBytes(s) == IF s = <<>> THEN 0 ELSE s[1] + SumBytes(Tail(s))

\* A mutant of HexChar: lower-case digits.
HexCharLower(nibble) == IF nibble < 10 THEN 48 + nibble ELSE 87 + nibble

\* `hex(nibble)[-1].upper()` for a nibble in 0..15.
HexChar(nibble) == IF nibble < 10 THEN 48 + nibble ELSE 55 + nibble

\* _encode_dsc_command(command, data_bytes): the number, the data and the two hex
\* digits of the sum of their bytes modulo 256.
EncodeDscCommand(command, data_bytes) ==
    LET cmd == ZeroPad3(Decimal(command)) \o data_bytes
        checksum == SumBytes(cmd) % 256
    IN  cmd \o <<HexChar(checksum \div 16), HexChar(checksum % 16)>>

\* s[a:b] for 0 <= a and b counted from the front.
Slice(s, a, b) == IF Min(b, Len(s)) > a THEN SubSeq(s, a + 1, Min(b, Len(s))) ELSE <<>>

\* `cmdline[:3]`, `cmdline[3:-2]` and `cmdline[-2:]`.
CmdNumPart(cmdline) == Slice(cmdline, 0, 3)
CmdDataPart(cmdline) == Slice(cmdline, 3, Len(cmdline) - 2)
ChecksumPart(cmdline) == Slice(cmdline, IF Len(cmdline) > 2 THEN Len(cmdline) - 2 ELSE 0,
                               Len(cmdline))

\* int(s) raises ValueError unless s is a number.  The strings of the model are made
\* of digits, letters and bytes above them, and of those int accepts exactly the
\* non-empty strings of digits.
CanParseInt(s) == s # <<>> /\ \A i \in DOMAIN s : s[i] \in 48..57

\* int(s) for a string of digits.
RECURSIVE ParseInt(_)
ParseInt(s) == IF s = <<>> THEN 0 ELSE 10 * ParseInt(SubSeq(s, 1, Len(s) - 1)) + (s[Len(s)] - 48)

\* The test of _receive_dsc_cmd, once the number is parsed: the frame is what
\* _encode_dsc_command makes of its number and its data.
ChecksumAccepted(cmdline) ==
    cmdline = EncodeDscCommand(ParseInt(CmdNumPart(cmdline)), CmdDataPart(cmdline))

OtherThanCodec == UNCHANGED <<loaderVars, connVars, timerVars, raVars, dscVars, readerVars, delayVars, paranoidVars, bridgeVars, busVars, persistVars, bufferVars, getVars, sessVars, wdaVars, fwdVars, dsVars, loopVars>>

\* A command number and a data string are about to be encoded.
CodecStart ==
    /\ codec_pc = "encode"
    /\ codec_command \in 0..MaxCommand
    /\ codec_data \in StringsUpTo(DataBytes, MaxDataLen)
    /\ codec_frame = <<>>
    /\ codec_decoded = NotDecoded

\* Nothing is encoded: what the other specifications start from.
CodecIdle ==
    /\ codec_pc = "done"
    /\ codec_command = 0
    /\ codec_data = <<>>
    /\ codec_frame = <<>>
    /\ codec_decoded = NotDecoded

\* send_dsc_command: `cmdline = self._encode_dsc_command(command, data_bytes)`.
CodecEncode ==
    /\ codec_pc = "encode"
    /\ codec_frame' = EncodeDscCommand(codec_command, codec_data)
    /\ codec_pc' = "decode"
    /\ UNCHANGED <<codec_command, codec_data, codec_decoded>>
    /\ OtherThanCodec

\* _receive_dsc_cmd on that frame, up to the checksum test.
CodecDecode ==
    /\ codec_pc = "decode"
    /\ CanParseInt(CmdNumPart(codec_frame))
    /\ codec_decoded' = [num |-> ParseInt(CmdNumPart(codec_frame)),
                         data |-> CmdDataPart(codec_frame),
                         accepted |-> ChecksumAccepted(codec_frame)]
    /\ codec_pc' = "done"
    /\ UNCHANGED <<codec_command, codec_data, codec_frame>>
    /\ OtherThanCodec

CodecNext == CodecEncode \/ CodecDecode

\* ---------------------------------------------------------------------------
\* The value of an upper-case hex digit; 16 for any other character.
C12_HexValue(c) == IF c \in 48..57 THEN c - 48 ELSE IF c \in 65..70 THEN c - 55 ELSE 16

\* C12: for every command number in 0..999 and every data string, the frame is the
\* number in three digits with leading zeros, then the data, then exactly two
\* upper-case hex digits (leading zero kept) whose value is the sum of the bytes
\* before them modulo 256; and decoding the frame gives back the number and the
\* data and accepts the checksum.
C12_EncodeDecodeRoundTrip ==
    /\ codec_pc # "encode" =>
          LET n == Len(codec_frame) IN
          /\ n = 3 + Len(codec_data) + 2
          /\ codec_frame[1] = 48 + (codec_command \div 100)
          /\ codec_frame[2] = 48 + ((codec_command \div 10) % 10)
          /\ codec_frame[3] = 48 + (codec_command % 10)
          /\ SubSeq(codec_frame, 4, n - 2) = codec_data
          /\ C12_HexValue(codec_frame[n - 1]) < 16
          /\ C12_HexValue(codec_frame[n]) < 16
          /\ 16 * C12_HexValue(codec_frame[n - 1]) + C12_HexValue(codec_frame[n])
                = SumBytes(SubSeq(codec_frame, 1, n - 2)) % 256
    /\ codec_pc = "decode" => CanParseInt(CmdNumPart(codec_frame))
    /\ codec_pc = "done" =>
          codec_decoded = [num |-> codec_command, data |-> codec_data, accepted |-> TRUE]

\* A frame whose checksum is below 16, so that its first hex digit is the zero, has
\* been encoded from a number and data and decoded again.
C12_Witness ==
    /\ codec_pc = "done"
    /\ codec_data # <<>>
    /\ codec_decoded.accepted
    /\ codec_frame[Len(codec_frame) - 1] = 48
    /\ codec_frame[Len(codec_frame)] = 48

\* ===========================================================================
\* gateways.powerseries: DscPanelServer._receive_dsc_cmd and dsc_reflector
\* ===========================================================================
\* Connections the reflector accepts in one run.
MaxChildren == 2

\* The password of the reflector ("user"), and a string that is not the password.
Password == <<117, 115, 101, 114>>
WrongPassword == <<120>>

\* The zone number as the panel writes it: three digits.
ZoneData(z) == ZeroPad3(Decimal(z))

\* Frames the panel sends with a good checksum: zone 1 open and closed, open for a
\* zone the cache has no entry for, partition 1 ready, armed and busy, the login
\* response, a user command, a trouble report and a code without handler.
GoodPanelFrames ==
    {EncodeDscCommand(609, ZoneData(z)) : z \in {1, NumZones + 1}}
        \cup {EncodeDscCommand(610, ZoneData(1))}
        \cup {EncodeDscCommand(num, <<49>>) : num \in {650, 652, 673}}
        \cup {EncodeDscCommand(505, <<49>>), EncodeDscCommand(912, <<49, 49>>),
              EncodeDscCommand(840, <<49>>), EncodeDscCommand(510, <<56, 49>>)}

\* Lines that are damaged on the way: the last character replaced, the first
\* character replaced by a letter, and an empty line.
BadPanelFrames ==
    {[EncodeDscCommand(609, ZoneData(1)) EXCEPT ![8] = 90],
     [EncodeDscCommand(609, ZoneData(1)) EXCEPT ![1] = 88],
     <<>>}

PanelFrames == GoodPanelFrames \cup BadPanelFrames

\* Lines a reflector client sends: the login with the password, with another
\* password, with the password and a wrong checksum, a key press and a status
\* request.
ChildLines ==
    {EncodeDscCommand(5, Password), EncodeDscCommand(5, WrongPassword),
     <<48, 48, 53>> \o Password \o <<90, 90>>,
     EncodeDscCommand(71, <<49>>), EncodeDscCommand(1, <<>>)}

OtherThanReader == UNCHANGED <<loaderVars, connVars, timerVars, raVars, codecVars, delayVars, paranoidVars, bridgeVars, busVars, persistVars, bufferVars, getVars, sessVars, wdaVars, fwdVars, dsVars, loopVars>>

\* connect() has returned: mark_all_stale has run once.
DscMarked ==
    /\ zone_status = [z \in 1..NumZones |-> Stale]
    /\ partition_status = [q \in 1..NumPartitions |-> Stale]
    /\ mark_pc = 0
    /\ dsc_published = <<>>
    /\ marks = 1
    /\ recorded_since = {}

\* The panel connection is up and its listener running; the reflector listens and
\* no client has connected.
ReaderStart ==
    /\ rd_listener = "run"
    /\ children = <<>>
    /\ parent_pc = "accept"
    /\ next_child = 1
    /\ auth_ok = {}
    /\ rd_last = <<>>
    /\ rf_last = <<>>

\* No panel connection and no reflector: what the other specifications start from.
ReaderIdle ==
    /\ rd_listener = "dead"
    /\ children = <<>>
    /\ parent_pc = "accept"
    /\ next_child = 1
    /\ auth_ok = {}
    /\ rd_last = <<>>
    /\ rf_last = <<>>

\* The entity a handler of _response_cmd_map records for, if it records at all.
IsZoneCmd(num) == num \in {609, 610}
IsPartitionCmd(num) == num \in {650, 652, 673}

\* The status the handler records: _do_zone_open 1, _do_zone_closed 0,
\* _do_partition_ready, _do_partition_armed, _do_partition_busy.
StatusOfCmd(num) ==
    CASE num = 609 -> 1
      [] num = 610 -> 0
      [] num = 650 -> 0
      [] num = 652 -> 1
      [] num = 673 -> 2
      [] OTHER -> 0

\* The handler of the command raises: int(data) on data that is no number, the
\* lookup of a key the cache dictionary does not hold, or one of the asserts of
\* _do_login and _do_user_command_invoked.
HandlerRaises(num, data) ==
    CASE IsZoneCmd(num) ->
            \/ ~CanParseInt(data)
            \/ ParseInt(data) \notin 1..NumZones
            \/ zone_status[ParseInt(data)] = Unset
      [] IsPartitionCmd(num) ->
            \/ ~CanParseInt(data)
            \/ ParseInt(data) \notin 1..NumPartitions
            \/ partition_status[ParseInt(data)] = Unset
      [] num = 505 -> ~CanParseInt(data) \/ ParseInt(data) <= 0
      [] num \in {840, 841} -> ~CanParseInt(data)
      [] num = 912 -> Len(data) # 2 \/ ~CanParseInt(data)
      [] OTHER -> FALSE


\* ReflectorParentThread.to_children: the children the line is sent to.
ChildrenToSend(cs) == {cs[i].id : i \in {j \in DOMAIN cs : cs[j].authenticated}}


\* `if self.gateway.reflector and cmd_num != 505`, with a reflector configured.
ForwardedToReflector(num) == num # 505

\* The record of a panel frame in the history: what became of it, the children it
\* was sent to, and whether a status was recorded in the cache and broadcast for it
\* (_record_zone_status and _record_partition_status do both or neither).
FrameRecord(cmdline, kind, sent_to, published) ==
    [frame |-> cmdline, kind |-> kind, sent_to |-> sent_to,
     authenticated |-> {children[i].id : i \in {j \in DOMAIN children : children[j].authenticated}},
     recorded |-> published,
     published |-> published]

\* receive_from_listener(cmd) -> _receive_dsc_cmd(cmdline), on the listener thread.
\* An exception leaves through ListenerThread.run, which closes the socket and ends.
ReceiveDscCmd(cmdline) ==
    /\ rd_listener = "run"
    /\ IF ~CanParseInt(CmdNumPart(cmdline))
       THEN \* int(cmdline[:3]) raises
            /\ rd_listener' = "dead"
            /\ rd_last' = <<FrameRecord(cmdline, "raised", {}, FALSE)>>
            /\ UNCHANGED dscVars
       ELSE IF ~ChecksumAccepted(cmdline)
       THEN \* 'response with bad checksum', return
            /\ rd_last' = <<FrameRecord(cmdline, "discarded", {}, FALSE)>>
            /\ UNCHANGED <<rd_listener, dscVars>>
       ELSE LET num == ParseInt(CmdNumPart(cmdline))
                data == CmdDataPart(cmdline)
            IN  IF HandlerRaises(num, data)
                THEN /\ rd_listener' = "dead"
                     /\ rd_last' = <<FrameRecord(cmdline, "raised", {}, FALSE)>>
                     /\ UNCHANGED dscVars
                ELSE /\ IF IsZoneCmd(num)
                        THEN /\ zone_status' =
                                   [zone_status EXCEPT ![ParseInt(data)] = StatusOfCmd(num)]
                             /\ DscPublish("zone", ParseInt(data), StatusOfCmd(num),
                                           zone_status[ParseInt(data)])
                             /\ UNCHANGED <<partition_status, mark_pc, marks>>
                        ELSE IF IsPartitionCmd(num)
                        THEN /\ partition_status' =
                                   [partition_status EXCEPT ![ParseInt(data)] = StatusOfCmd(num)]
                             /\ DscPublish("partition", ParseInt(data), StatusOfCmd(num),
                                           partition_status[ParseInt(data)])
                             /\ UNCHANGED <<zone_status, mark_pc, marks>>
                        ELSE UNCHANGED dscVars
                     /\ rd_last' = <<FrameRecord(cmdline, "handled",
                                                 IF ForwardedToReflector(num)
                                                 THEN ChildrenToSend(children) ELSE {},
                                                 IsZoneCmd(num) \/ IsPartitionCmd(num))>>
                     /\ UNCHANGED rd_listener
    /\ UNCHANGED <<children, parent_pc, next_child, auth_ok, rf_last>>
    /\ OtherThanReader

\* The watchdog has the connection made again: connect() starts a new listener.
ReaderReconnect ==
    /\ rd_listener = "dead"
    /\ rd_listener' = "run"
    /\ UNCHANGED <<children, parent_pc, next_child, auth_ok, rd_last, rf_last>>
    /\ UNCHANGED dscVars
    /\ OtherThanReader

\* ReflectorParentThread.run: accept() returns a connection; the child is appended
\* and child.run() is called on the thread of the parent, so that no other
\* connection is accepted until it returns.
ReflectorAccept ==
    /\ parent_pc = "accept"
    /\ next_child <= MaxChildren
    /\ children' = Append(children, [id |-> next_child, authenticated |-> FALSE])
    /\ next_child' = next_child + 1
    /\ parent_pc' = "child"
    /\ UNCHANGED <<rd_listener, auth_ok, rd_last, rf_last>>
    /\ UNCHANGED dscVars
    /\ OtherThanReader

\* `line[:3] == '005'`.
IsAuthLine(line) == Slice(line, 0, 3) = <<48, 48, 53>>

\* A mutant of PasswordMatches: every login is accepted.
PasswordMatchesAny(line) == TRUE

\* attempt_auth: `line[3:-2] == self.reflector.password`.
PasswordMatches(line) == CmdDataPart(line) = Password

\* Reflector.from_child: `if cmdline[:3] == '005': return`.
FromChildDrops(cmdline) == Slice(cmdline, 0, 3) = <<48, 48, 53>>

\* ReflectorThread.run, one line of the child that is running: a 005 line goes to
\* attempt_auth, any other line goes to Reflector.from_child when the child is
\* authenticated (which drops 005 lines and enqueues the rest for the panel), and
\* is dropped with a warning when it is not.
ChildLine(line) ==
    /\ parent_pc = "child"
    /\ LET c == Len(children)
           child == children[c]
           forwarded == ~IsAuthLine(line) /\ child.authenticated /\ ~FromChildDrops(line)
       IN  /\ children' = IF IsAuthLine(line)
                          THEN [children EXCEPT ![c].authenticated = @ \/ PasswordMatches(line)]
                          ELSE children
           /\ auth_ok' = IF Slice(line, 0, 3) = <<48, 48, 53>> /\ CmdDataPart(line) = Password
                         THEN auth_ok \cup {child.id} ELSE auth_ok
           /\ rf_last' = <<[child |-> child.id, line |-> line, forwarded |-> forwarded]>>
    /\ UNCHANGED <<rd_listener, parent_pc, next_child, rd_last>>
    /\ UNCHANGED dscVars
    /\ OtherThanReader

\* The child's connection ends: run leaves its loop and calls parent.child_exit.
ChildExit ==
    /\ parent_pc = "child"
    /\ children' = SubSeq(children, 1, Len(children) - 1)
    /\ parent_pc' = "accept"
    /\ UNCHANGED <<rd_listener, next_child, auth_ok, rd_last, rf_last>>
    /\ UNCHANGED dscVars
    /\ OtherThanReader

ReaderNext ==
    \/ \E cmdline \in PanelFrames : ReceiveDscCmd(cmdline)
    \/ ReaderReconnect
    \/ ReflectorAccept
    \/ \E line \in ChildLines : ChildLine(line)
    \/ ChildExit

\* ---------------------------------------------------------------------------
\* The last two characters of the frame are the upper-case hex digits of the sum of
\* the characters before them modulo 256.
EndsWithChecksum(cmdline) ==
    /\ Len(cmdline) >= 2
    /\ LET n == Len(cmdline)
           sum == SumBytes(SubSeq(cmdline, 1, n - 2)) % 256
       IN  /\ C12_HexValue(cmdline[n - 1]) = sum \div 16
           /\ C12_HexValue(cmdline[n]) = sum % 16

\* C11: a frame whose last two characters are not the checksum of the characters
\* before them is discarded: the zone and partition caches stay as they were,
\* nothing is broadcast, the frame goes to no reflector client, and the reader goes
\* on with the next frame (it returns from the frame instead of raising, which would
\* end the listener thread).  Stated for frames long enough to hold a number and a
\* checksum.
C11_BadChecksumDiscarded ==
    \A i \in DOMAIN rd_last :
        (Len(rd_last[i].frame) >= 5 /\ ~EndsWithChecksum(rd_last[i].frame)) =>
            /\ rd_last[i].kind = "discarded"
            /\ ~rd_last[i].recorded
            /\ ~rd_last[i].published
            /\ rd_last[i].sent_to = {}

\* C13: a line of a reflector client is enqueued for the panel only if that client
\* has sent the login with the configured password before, and a line whose code is
\* 005 is never enqueued for the panel.
C13_OnlyAuthenticatedForwarded ==
    /\ \A i \in DOMAIN rf_last :
          rf_last[i].forwarded =>
              /\ rf_last[i].child \in auth_ok
              /\ Slice(rf_last[i].line, 0, 3) # <<48, 48, 53>>

\* A client has logged in and a line of it has been enqueued for the panel; a line
\* of a client that has not logged in has been dropped.
C13_Witness ==
    /\ 1 \in auth_ok
    /\ \E i \in DOMAIN rf_last :
          /\ rf_last[i].child = 2
          /\ 2 \notin auth_ok
          /\ ~rf_last[i].forwarded
          /\ Slice(rf_last[i].line, 0, 3) # <<48, 48, 53>>

\* C14: every frame of the panel with a good checksum, except the login response
\* 505, is sent to every reflector client that is authenticated at that moment, and
\* no frame of the panel is sent to a client that is not.
C14_PanelFramesReflected ==
    \A i \in DOMAIN rd_last :
        /\ rd_last[i].sent_to \subseteq rd_last[i].authenticated
        /\ (/\ EndsWithChecksum(rd_last[i].frame)
            /\ CanParseInt(CmdNumPart(rd_last[i].frame))
            /\ Len(rd_last[i].frame) >= 5
            /\ ParseInt(CmdNumPart(rd_last[i].frame)) # 505)
               => rd_last[i].sent_to = rd_last[i].authenticated

\* ---------------------------------------------------------------------------
\* C36: while a reflector client is connected, a further client that connects is
\* accepted and served by a reader of its own: the accept loop can take the next
\* connection whenever one is waiting.
C36_SecondClientAccepted ==
    (Len(children) >= 1 /\ next_child <= MaxChildren) => ENABLED ReflectorAccept

\* ===========================================================================
\* gateways.synther.synthesizer.Delay: an output action after a button has been
\* held for a delay. on_lutron_push runs on the thread that reads the repeater,
\* on_delay on the timer's dispatcher thread; both use state.timer_token and
\* neither takes a lock.
\* ===========================================================================

DelayD == 2
MaxDlTime == 5
MaxPresses == 3

OtherThanDelay ==
    UNCHANGED <<loaderVars, connVars, timerVars, raVars, dscVars, codecVars, readerVars,
                paranoidVars, bridgeVars, busVars, persistVars, bufferVars, getVars, sessVars, wdaVars, fwdVars, dsVars, loopVars>>

\* Delay.__init__ has returned: state.pressed is the button's state of that time,
\* no timer event is installed.
DelayStart ==
    /\ dl_now = 0
    /\ dl_button \in BOOLEAN
    /\ dl_pressed = dl_button
    /\ dl_timer_token = None
    /\ dl_timers = <<>>
    /\ dl_next_token = 1
    /\ dl_ready = <<>>
    /\ dl_pc = "wait"
    /\ dl_presses = <<>>
    /\ dl_actions = <<>>

\* No Delay rule is configured: what the other specifications start from.
DelayIdle ==
    /\ dl_now = 0
    /\ dl_button = FALSE
    /\ dl_pressed = FALSE
    /\ dl_timer_token = None
    /\ dl_timers = <<>>
    /\ dl_next_token = 1
    /\ dl_ready = <<>>
    /\ dl_pc = "wait"
    /\ dl_presses = <<>>
    /\ dl_actions = <<>>

\* SgTimer.cancel_event on the list of the rule's events.
DelayWithoutToken(ts, token) == SelectSeq(ts, LAMBDA e : e.token # token)

\* invoke_ready: the events that are due, and the ones that stay.
DelayDue(ts) == SelectSeq(ts, LAMBDA e : e.when <= dl_now)
DelayNotDue(ts) == SelectSeq(ts, LAMBDA e : e.when > dl_now)

\* The keypad reports a change and on_lutron_push handles it: the button is then
\* in state `pressed` (an event of another button of the keypad leaves it as it
\* was).
DelayOnLutronPush(pressed) ==
    /\ pressed /\ ~dl_pressed => Len(dl_presses) < MaxPresses
    /\ dl_button' = pressed
    /\ LET newly == pressed /\ ~dl_pressed
           released == dl_pressed /\ ~pressed
           install == newly /\ dl_timer_token = None
           cancel == released /\ dl_timer_token # None
       IN  /\ dl_timers' =
                 IF install
                 THEN Append(dl_timers, [token |-> dl_next_token, when |-> dl_now + DelayD])
                 ELSE IF cancel THEN DelayWithoutToken(dl_timers, dl_timer_token)
                 ELSE dl_timers
           /\ dl_next_token' = IF install THEN dl_next_token + 1 ELSE dl_next_token
           /\ dl_timer_token' = IF install THEN dl_next_token
                                ELSE IF cancel THEN None
                                ELSE dl_timer_token
           /\ dl_presses' =
                 IF newly
                 THEN Append(dl_presses,
                             [at |-> dl_now, released |-> None,
                              token |-> IF install THEN dl_next_token ELSE None])
                 ELSE IF released /\ dl_presses # <<>>
                 THEN [dl_presses EXCEPT ![Len(dl_presses)].released = dl_now]
                 ELSE dl_presses
    /\ dl_pressed' = pressed
    /\ UNCHANGED <<dl_now, dl_ready, dl_pc, dl_actions>>
    /\ OtherThanDelay

\* invoke_ready, under the lock: the handlers of the events that are due are
\* collected and the events leave the list.
DelayCollect ==
    /\ dl_pc = "wait"
    /\ DelayDue(dl_timers) # <<>>
    /\ dl_ready' = [i \in DOMAIN DelayDue(dl_timers) |-> DelayDue(dl_timers)[i].token]
    /\ dl_timers' = DelayNotDue(dl_timers)
    /\ dl_pc' = "invoke"
    /\ UNCHANGED <<dl_now, dl_button, dl_pressed, dl_timer_token, dl_next_token,
                   dl_presses, dl_actions>>
    /\ OtherThanDelay

\* on_delay, called without the lock: pulse_output or set_level.
DelayOnDelayAct ==
    /\ dl_pc = "invoke"
    /\ dl_actions' = Append(dl_actions, [token |-> Head(dl_ready), at |-> dl_now])
    /\ dl_pc' = "clear"
    /\ UNCHANGED <<dl_now, dl_button, dl_pressed, dl_timer_token, dl_timers,
                   dl_next_token, dl_ready, dl_presses>>
    /\ OtherThanDelay

\* on_delay, its last statement: state.timer_token = None; invoke_ready goes on
\* with the next handler it collected.
DelayOnDelayClear ==
    /\ dl_pc = "clear"
    /\ dl_timer_token' = None
    /\ dl_ready' = Tail(dl_ready)
    /\ dl_pc' = IF Tail(dl_ready) = <<>> THEN "wait" ELSE "invoke"
    /\ UNCHANGED <<dl_now, dl_button, dl_pressed, dl_timers, dl_next_token,
                   dl_presses, dl_actions>>
    /\ OtherThanDelay

\* A second passes. The dispatcher is taken to wake on time: the clock does not
\* move while an event is due or a handler is running.
DelayTick ==
    /\ dl_now < MaxDlTime
    /\ dl_pc = "wait"
    /\ DelayDue(dl_timers) = <<>>
    /\ dl_now' = dl_now + 1
    /\ UNCHANGED <<dl_button, dl_pressed, dl_timer_token, dl_timers, dl_next_token,
                   dl_ready, dl_pc, dl_presses, dl_actions>>
    /\ OtherThanDelay

DelayNext ==
    \/ \E pressed \in BOOLEAN : DelayOnLutronPush(pressed)
    \/ DelayCollect
    \/ DelayOnDelayAct
    \/ DelayOnDelayClear
    \/ DelayTick

\* The actions performed for the event a press installed.
ActionsFor(p) == {i \in DOMAIN dl_actions : dl_actions[i].token = dl_presses[p].token}

\* C15: when a press is released before the delay has elapsed, the output action
\* is not performed for that press, however the release on the reader's thread
\* and the dispatcher's thread interleave.
C15_ReleasedEarlyNoAction ==
    \A p \in DOMAIN dl_presses :
        (/\ dl_presses[p].released # None
         /\ dl_presses[p].released < dl_presses[p].at + DelayD
         /\ dl_presses[p].token # None)
            => ActionsFor(p) = {}

\* C16: when a press lasts for the delay, the action is performed exactly once,
\* at the moment the delay expires, and the rule never has more than one timer
\* event pending.
C16_HeldActsOnceOnePending ==
    /\ Len(dl_timers) <= 1
    /\ \A p \in DOMAIN dl_presses :
          LET expiry == dl_presses[p].at + DelayD
              held == dl_presses[p].released = None \/ dl_presses[p].released > expiry
          IN  held =>
                 /\ Cardinality(ActionsFor(p)) <= 1
                 /\ \A i \in ActionsFor(p) : dl_actions[i].at = expiry
                 /\ dl_now > expiry => ActionsFor(p) # {}

\* ===========================================================================
\* gateways.synther.synthesizer.Paranoid: a warning when a device has been in a
\* bad state for a delay, and a clearing notification afterwards. on_change runs
\* on the thread that reads the device's gateway, on_delay on the timer's
\* dispatcher thread; both use the rule's state and neither takes a lock.
\* ===========================================================================

ParanoidD == 2
MaxPaTime == 4
MaxPeriods == 2

OtherThanParanoid ==
    UNCHANGED <<loaderVars, connVars, timerVars, raVars, dscVars, codecVars, readerVars,
                delayVars, bridgeVars, busVars, persistVars, bufferVars, getVars, sessVars, wdaVars, fwdVars, dsVars, loopVars>>

\* Paranoid.__init__ has returned: on_change(True) has run once, and has installed
\* a timer event when the device was in the bad state.
ParanoidStart ==
    /\ pa_now = 0
    /\ pa_bad \in BOOLEAN
    /\ pa_timer_token = IF pa_bad THEN 1 ELSE None
    /\ pa_bad_since = IF pa_bad THEN 0 ELSE None
    /\ pa_warned_at = None
    /\ pa_timers = IF pa_bad THEN <<[token |-> 1, when |-> ParanoidD]>> ELSE <<>>
    /\ pa_next_token = IF pa_bad THEN 2 ELSE 1
    /\ pa_ready = <<>>
    /\ pa_pc = "wait"
    /\ pa_period = IF pa_bad THEN 1 ELSE 0
    /\ pa_period_start = IF pa_bad THEN 0 ELSE None
    /\ pa_sent = <<>>

\* No Paranoid rule is configured: what the other specifications start from.
ParanoidIdle ==
    /\ pa_now = 0
    /\ pa_bad = FALSE
    /\ pa_timer_token = None
    /\ pa_bad_since = None
    /\ pa_warned_at = None
    /\ pa_timers = <<>>
    /\ pa_next_token = 1
    /\ pa_ready = <<>>
    /\ pa_pc = "wait"
    /\ pa_period = 0
    /\ pa_period_start = None
    /\ pa_sent = <<>>

\* SgTimer.cancel_event on the list of the rule's events.
ParanoidWithoutToken(ts, token) == SelectSeq(ts, LAMBDA e : e.token # token)

\* invoke_ready: the events that are due, and the ones that stay.
ParanoidDue(ts) == SelectSeq(ts, LAMBDA e : e.when <= pa_now)
ParanoidNotDue(ts) == SelectSeq(ts, LAMBDA e : e.when > pa_now)

\* send_notification, as the history records it: the kind, the time, the bad
\* period the device is in (or has just left, for a clearing) and how long the
\* device has been bad without a break.
Notification(kind, bad, period, start) ==
    [kind |-> kind, at |-> pa_now, bad |-> bad, period |-> period,
     bad_for |-> IF start = None THEN None ELSE pa_now - start]

\* The device's gateway reports a change and on_change handles it: the device is
\* then in the bad state or not (it may be as it was).
ParanoidOnChange(bad) ==
    /\ bad /\ ~pa_bad => pa_period < MaxPeriods
    /\ pa_bad' = bad
    /\ pa_period' = IF bad /\ ~pa_bad THEN pa_period + 1 ELSE pa_period
    /\ pa_period_start' = IF ~bad THEN None
                          ELSE IF pa_bad THEN pa_period_start ELSE pa_now
    /\ IF bad
       THEN LET install == pa_timer_token = None
            IN  /\ pa_bad_since' = IF install THEN pa_now ELSE pa_bad_since
                /\ pa_timers' =
                      IF install
                      THEN Append(pa_timers,
                                  [token |-> pa_next_token, when |-> pa_now + ParanoidD])
                      ELSE pa_timers
                /\ pa_timer_token' = IF install THEN pa_next_token ELSE pa_timer_token
                /\ pa_next_token' = IF install THEN pa_next_token + 1 ELSE pa_next_token
                /\ UNCHANGED <<pa_warned_at, pa_sent>>
       ELSE /\ pa_timers' = IF pa_timer_token # None
                            THEN ParanoidWithoutToken(pa_timers, pa_timer_token)
                            ELSE pa_timers
            /\ pa_timer_token' = None
            /\ pa_sent' = IF pa_warned_at # None
                          THEN Append(pa_sent, Notification("clearing", FALSE, pa_period,
                                                            pa_period_start))
                          ELSE pa_sent
            /\ pa_bad_since' = None
            /\ pa_warned_at' = None
            /\ UNCHANGED pa_next_token
    /\ UNCHANGED <<pa_now, pa_ready, pa_pc>>
    /\ OtherThanParanoid

\* invoke_ready, under the lock: the handlers of the events that are due are
\* collected and the events leave the list.
ParanoidCollect ==
    /\ pa_pc = "wait"
    /\ ParanoidDue(pa_timers) # <<>>
    /\ pa_ready' = [i \in DOMAIN ParanoidDue(pa_timers) |-> ParanoidDue(pa_timers)[i].token]
    /\ pa_timers' = ParanoidNotDue(pa_timers)
    /\ pa_pc' = "invoke"
    /\ UNCHANGED <<pa_now, pa_bad, pa_timer_token, pa_bad_since, pa_warned_at,
                   pa_next_token, pa_period, pa_period_start, pa_sent>>
    /\ OtherThanParanoid

\* on_delay, called without the lock: state.warned_at = time.time().
ParanoidOnDelayMark ==
    /\ pa_pc = "invoke"
    /\ pa_warned_at' = pa_now
    /\ pa_pc' = "send"
    /\ UNCHANGED <<pa_now, pa_bad, pa_timer_token, pa_bad_since, pa_timers,
                   pa_next_token, pa_ready, pa_period, pa_period_start, pa_sent>>
    /\ OtherThanParanoid

\* on_delay: send_notification(True); invoke_ready goes on with the next handler
\* it collected. state.timer_token is left as it is.
ParanoidOnDelaySend ==
    /\ pa_pc = "send"
    /\ pa_sent' = Append(pa_sent, Notification("warning", pa_bad,
                                               IF pa_bad THEN pa_period ELSE 0,
                                               pa_period_start))
    /\ pa_ready' = Tail(pa_ready)
    /\ pa_pc' = IF Tail(pa_ready) = <<>> THEN "wait" ELSE "invoke"
    /\ UNCHANGED <<pa_now, pa_bad, pa_timer_token, pa_bad_since, pa_warned_at,
                   pa_timers, pa_next_token, pa_period, pa_period_start>>
    /\ OtherThanParanoid

\* A second passes. The dispatcher is taken to wake on time: the clock does not
\* move while an event is due or a handler is running.
ParanoidTick ==
    /\ pa_now < MaxPaTime
    /\ pa_pc = "wait"
    /\ ParanoidDue(pa_timers) = <<>>
    /\ pa_now' = pa_now + 1
    /\ UNCHANGED <<pa_bad, pa_timer_token, pa_bad_since, pa_warned_at, pa_timers,
                   pa_next_token, pa_ready, pa_pc, pa_period, pa_period_start, pa_sent>>
    /\ OtherThanParanoid

ParanoidNext ==
    \/ \E bad \in BOOLEAN : ParanoidOnChange(bad)
    \/ ParanoidCollect
    \/ ParanoidOnDelayMark
    \/ ParanoidOnDelaySend
    \/ ParanoidTick

\* The notifications of a kind sent in (or, for a clearing, on leaving) a period.
SentIn(kind, q) == {i \in DOMAIN pa_sent : pa_sent[i].kind = kind /\ pa_sent[i].period = q}

\* C17: a warning is sent only when the device has been in the bad state without
\* a break for at least the delay; a shorter bad period produces none.
C17_WarningOnlyAfterDelay ==
    \A i \in DOMAIN pa_sent :
        pa_sent[i].kind = "warning" =>
            /\ pa_sent[i].bad
            /\ pa_sent[i].bad_for >= ParanoidD

\* C18: within one bad period at most one warning is sent, however many change
\* events arrive.
C18_OneWarningPerPeriod ==
    \A q \in 1..pa_period : Cardinality(SentIn("warning", q)) <= 1

\* C19: when the device leaves the bad state, exactly one clearing notification
\* is sent if a warning was sent in that period and none otherwise; warnings and
\* clearings alternate, beginning with a warning.
C19_ClearingIffWarned ==
    /\ \A q \in 1..pa_period :
          (q < pa_period \/ ~pa_bad) =>
              Cardinality(SentIn("clearing", q)) =
                  (IF SentIn("warning", q) # {} THEN 1 ELSE 0)
    /\ \A i \in DOMAIN pa_sent :
          pa_sent[i].kind = (IF i % 2 = 1 THEN "warning" ELSE "clearing")

\* ===========================================================================
\* gateways.synther.synthesizer.Bridge: a Lutron output and a DSC zone kept in
\* step. on_lutron_push runs on the thread that reads the repeater,
\* on_physical_push on the thread that reads the panel.
\* ===========================================================================

MaxBridgeEvents == 5
LevelOn == 100
LevelOff == 0

OtherThanBridge ==
    UNCHANGED <<loaderVars, connVars, timerVars, raVars, dscVars, codecVars, readerVars,
                delayVars, paranoidVars, busVars, persistVars, bufferVars, getVars, sessVars, wdaVars, fwdVars, dsVars, loopVars>>

\* ra_dev.be_on(state): the level the output is told to go to.
BeOn(state) == IF state THEN LevelOn ELSE LevelOff

\* SwitchedOutput.is_on.
IsOn(level) == level > 0

\* on_lutron_push: `if ra_dev.is_on() != dsc_zone.is_open()`.
BridgeIssues(is_on, is_open) == is_on # is_open

\* Bridge.__init__ has returned: the state of the zone has been pushed into
\* Lutron, and both handlers are subscribed.
BridgeStart ==
    /\ br_zone_open \in BOOLEAN
    /\ br_level \in {LevelOff, LevelOn}
    /\ br_ra_cmds = <<BeOn(br_zone_open)>>
    /\ br_events = 0
    /\ br_dsc_cmds = 0
    /\ br_last = <<>>

\* No Bridge rule is configured: what the other specifications start from.
BridgeIdle ==
    /\ br_zone_open = FALSE
    /\ br_level = LevelOff
    /\ br_ra_cmds = <<>>
    /\ br_events = 0
    /\ br_dsc_cmds = 0
    /\ br_last = <<>>

\* The repeater reports a level of the output; the cache records it and
\* on_lutron_push handles the event.
BridgeOnLutronPush(level, cause) ==
    /\ br_events < MaxBridgeEvents
    /\ br_level' = level
    /\ LET issued == BridgeIssues(IsOn(level), br_zone_open)
       IN  /\ br_dsc_cmds' = IF issued THEN br_dsc_cmds + 1 ELSE br_dsc_cmds
           /\ br_last' = <<[cause |-> cause, on |-> level > 0, open |-> br_zone_open,
                            issued |-> issued]>>
    /\ br_events' = br_events + 1
    /\ UNCHANGED br_zone_open
    /\ OtherThanBridge

\* Someone changes the output at a Lutron control.
BridgeLutronUser ==
    \E level \in {LevelOff, LevelOn} :
        /\ BridgeOnLutronPush(level, "user")
        /\ UNCHANGED br_ra_cmds

\* The repeater carries out the oldest set-level command and reports the level.
BridgeLutronEcho ==
    /\ br_ra_cmds # <<>>
    /\ BridgeOnLutronPush(Head(br_ra_cmds), "sync")
    /\ br_ra_cmds' = Tail(br_ra_cmds)

\* The panel reports the zone open or closed; the cache records it and
\* on_physical_push pushes the state into Lutron.
BridgeOnPhysicalPush ==
    \E open \in BOOLEAN :
        /\ br_events < MaxBridgeEvents
        /\ br_zone_open' = open
        /\ br_ra_cmds' = Append(br_ra_cmds, BeOn(open))
        /\ br_events' = br_events + 1
        /\ UNCHANGED <<br_level, br_dsc_cmds, br_last>>
        /\ OtherThanBridge

BridgeNext ==
    \/ BridgeLutronUser
    \/ BridgeLutronEcho
    \/ BridgeOnPhysicalPush

BusDevices == {"lamp", "door"}
BusHandlers == {"bridge", "paranoid"}

\* Subscriptions made in one run, and events kept for one device.
MaxSubscriptions == 2
MaxLog == 2

OtherThanBus ==
    UNCHANGED <<loaderVars, connVars, timerVars, raVars, dscVars, codecVars, readerVars,
                delayVars, paranoidVars, bridgeVars, persistVars, bufferVars, getVars, sessVars, wdaVars, fwdVars, dsVars, loopVars>>

\* SgEvents(persist) has been constructed, the log is empty, nothing was published.
BusStart ==
    /\ bus_subscribers = [d \in BusDevices |-> <<>>]
    /\ bus_call = [pc |-> "none", device |-> "lamp", synthetic |-> FALSE, idx |-> 0,
                   invoked |-> <<>>, recorded |-> <<>>, before |-> <<>>]
    /\ device_events = [d \in BusDevices |-> <<>>]

\* No bus is used: what the other specifications start from.
BusIdle == BusStart

\* The subscriptions of all devices together.
RECURSIVE SubscriptionCount(_)
SubscriptionCount(ds) ==
    IF ds = {} THEN 0
    ELSE LET d == CHOOSE x \in ds : TRUE
         IN  Len(bus_subscribers[d]) + SubscriptionCount(ds \ {d})

\* subscribe(device, handler): the handler is appended to the device's list.  The
\* rules subscribe while they are constructed, before their devices publish.
BusSubscribe(device, handler) ==
    /\ bus_call.pc # "notify"
    /\ SubscriptionCount(BusDevices) < MaxSubscriptions
    /\ bus_subscribers' = [bus_subscribers EXCEPT ![device] = Append(@, handler)]
    /\ UNCHANGED <<bus_call, device_events>>
    /\ OtherThanBus

\* record_startup(device, level): a RESTART event is inserted.
RecordStartup(log) == Append(log, "RESTART")

\* record_change(device, level): a CHANGED event is inserted; when the newest event
\* of the device is a CHECKPOINT, that one is overwritten in place.
RecordChange(log) ==
    IF log # <<>> /\ log[Len(log)] = "CHECKPOINT"
    THEN [log EXCEPT ![Len(log)] = "CHANGED"]
    ELSE Append(log, "CHANGED")

\* checkpoint_all, for one device: a CHECKPOINT event is emitted, or coalesced with
\* the CHECKPOINT that is already the newest event; nothing for a device without
\* events.
Checkpointed(log) ==
    IF log = <<>> \/ log[Len(log)] = "CHECKPOINT" THEN log ELSE Append(log, "CHECKPOINT")

\* A mutant of PersistCall: every state is recorded as a startup.
PersistCallStartup(synthetic) == "record_startup"

\* on_device_state_change: `if synthetic: persist.record_startup(...)
\* else: persist.record_change(...)`.
PersistCall(synthetic) == IF synthetic THEN "record_startup" ELSE "record_change"

\* on_device_state_change(device, synthetic) is called: the level is read and
\* notify_subscribers begins with the first handler of the device.
BusPublish(device, synthetic) ==
    /\ bus_call.pc # "notify"
    /\ Len(device_events[device]) < MaxLog
    /\ bus_call' = [pc |-> "notify", device |-> device, synthetic |-> synthetic, idx |-> 1,
                    invoked |-> <<>>, recorded |-> <<>>, before |-> device_events[device]]
    /\ UNCHANGED <<bus_subscribers, device_events>>
    /\ OtherThanBus

\* notify_subscribers, `handler(synthetic)` for the next handler of the list: it
\* returns, or it raises and the exception leaves on_device_state_change.
BusInvoke(raises) ==
    /\ bus_call.pc = "notify"
    /\ bus_call.idx <= Len(bus_subscribers[bus_call.device])
    /\ bus_call' =
          [bus_call EXCEPT
              !.invoked = Append(@, [handler |-> bus_subscribers[bus_call.device][bus_call.idx],
                                     synthetic |-> bus_call.synthetic]),
              !.idx = @ + 1,
              !.pc = IF raises THEN "raised" ELSE "notify"]
    /\ UNCHANGED <<bus_subscribers, device_events>>
    /\ OtherThanBus

\* on_device_state_change after notify_subscribers has returned: the event is
\* forwarded to the persistence log, and the call returns.
BusPersist ==
    /\ bus_call.pc = "notify"
    /\ bus_call.idx > Len(bus_subscribers[bus_call.device])
    /\ device_events' =
          [device_events EXCEPT ![bus_call.device] =
              IF PersistCall(bus_call.synthetic) = "record_startup"
              THEN RecordStartup(@) ELSE RecordChange(@)]
    /\ bus_call' = [bus_call EXCEPT !.pc = "returned",
                                     !.recorded = Append(@, PersistCall(bus_call.synthetic)),
                                     !.before = device_events[bus_call.device]]
    /\ UNCHANGED bus_subscribers
    /\ OtherThanBus

\* checkpoint_all, from the periodic timer or a signal: every device with events
\* gets a checkpoint.
CheckpointAll ==
    /\ \E d \in BusDevices : Checkpointed(device_events[d]) # device_events[d]
    /\ \A d \in BusDevices : Len(Checkpointed(device_events[d])) <= MaxLog
    /\ device_events' = [d \in BusDevices |-> Checkpointed(device_events[d])]
    /\ UNCHANGED <<bus_subscribers, bus_call>>
    /\ OtherThanBus

BusNext ==
    \/ \E device \in BusDevices, handler \in BusHandlers : BusSubscribe(device, handler)
    \/ \E device \in BusDevices, synthetic \in BOOLEAN : BusPublish(device, synthetic)
    \/ \E raises \in BOOLEAN : BusInvoke(raises)
    \/ BusPersist
    \/ CheckpointAll

\* The handler calls a complete fan-out to the subscribers of the device makes.
ExpectedCalls ==
    [i \in 1..Len(bus_subscribers[bus_call.device]) |->
        [handler |-> bus_subscribers[bus_call.device][i], synthetic |-> bus_call.synthetic]]

\* ---------------------------------------------------------------------------
\* C21: a call of on_device_state_change(device, synthetic) that has ended has
\* invoked every handler subscribed to the device exactly once, with the synthetic
\* flag of the call, and no handler subscribed to another device only, and has
\* recorded exactly one persistence event of the device: record_startup (RESTART)
\* when synthetic, record_change (CHANGED) otherwise.
C21_FanOutAndOneRecord ==
    bus_call.pc \in {"returned", "raised"} =>
        /\ bus_call.invoked = ExpectedCalls
        /\ bus_call.recorded =
              <<IF bus_call.synthetic THEN "record_startup" ELSE "record_change">>

\* ---------------------------------------------------------------------------
\* The newest call was a change (not synthetic) and its record has been written.
ChangeRecorded == bus_call.pc = "returned" /\ ~bus_call.synthetic

RaGatewayId == <<114, 97>>
AreaGatewayId == <<95, 95, 97, 114, 101, 97, 95, 95>>

\* Device ids of a gateway ('24', '024', 'K') and area names ('K').
GatewayDeviceIds == {<<50, 52>>, <<48, 50, 52>>, <<75>>}
AreaNames == {<<75>>}

\* The threads that call into the persistence object.
PersistThreads == {1, 2}

OtherThanPersist ==
    UNCHANGED <<loaderVars, connVars, timerVars, raVars, dscVars, codecVars, readerVars,
                delayVars, paranoidVars, bridgeVars, busVars, bufferVars, getVars, sessVars, wdaVars, fwdVars, dsVars, loopVars>>

\* The signals the program installs handlers for.
Signals == {"SIGINT", "SIGTERM", "SIGQUIT", "SIGHUP"}

\* The history buckets of bucket_defs: day, month, year, lifetime.
Buckets == {1, 2, 3, 4}

\* The sg_device_ids the rows of device_map can get.
DeviceIds == 1..(Cardinality(GatewayDeviceIds) + Cardinality(AreaNames))

\* The tables of a new database, no call in progress, no signal received.
PersistTables ==
    /\ device_map = <<>>
    /\ dm_lock = 0
    /\ dm_thread = [t \in PersistThreads |->
                      [pc |-> "idle", gateway_id |-> <<>>, gateway_device_id |-> <<>>, row |-> 0]]
    /\ dm_returned = {}
    /\ p_day = 0
    /\ history_buckets = [id \in DeviceIds |-> [b \in Buckets |-> 0]]
    /\ changed_on = [id \in DeviceIds |-> <<>>]
    /\ sig_last = [running |-> TRUE, signum |-> "none", checkpoint_all |-> FALSE,
                   checkpointed |-> {}, known |-> {}]

\* _install_signal_handlers: signal.signal for SIGINT, SIGHUP and SIGTERM replaces
\* the handlers of these three signals.
InstallSignalHandlers(handlers) ==
    [s \in Signals |-> IF s \in {"SIGINT", "SIGHUP", "SIGTERM"} THEN "persistence"
                       ELSE handlers[s]]

\* sg_signal.init(): signal.signal for SIGINT, SIGTERM, SIGQUIT and SIGHUP.
SgSignalInit(handlers) == [s \in Signals |-> "sg_signal"]

\* SgPersistence(dbconfig) has installed its signal handlers and created the schema
\* of an empty database; sg_signal.init() has not been called.
PersistStart ==
    /\ sig_handler = InstallSignalHandlers([s \in Signals |-> "default"])
    /\ PersistTables

\* The same with sg_signal.init() called first, or not at all.
PersistStartAnyOrder ==
    /\ sig_handler \in {InstallSignalHandlers([s \in Signals |-> "default"]),
                        InstallSignalHandlers(SgSignalInit([s \in Signals |-> "default"]))}
    /\ PersistTables

\* No persistence object is used: what the other specifications start from.
PersistIdle == PersistStart

\* The value of a well-formed integer literal.
RECURSIVE DecimalValue(_)
DecimalValue(s) ==
    IF s = <<>> THEN 0 ELSE 10 * DecimalValue(SubSeq(s, 1, Len(s) - 1)) + (s[Len(s)] - 48)

\* What SQLite keeps of a text in a column declared STRING, which has NUMERIC
\* affinity: the number when the text is a well-formed integer literal, the text
\* otherwise.  The same conversion is applied to a text compared with the column.
NumericAffinity(s) ==
    IF s # <<>> /\ \A i \in DOMAIN s : s[i] \in 48..57
    THEN [numeric |-> TRUE, value |-> DecimalValue(s), text |-> <<>>]
    ELSE [numeric |-> FALSE, value |-> 0, text |-> s]

\* The row `INSERT INTO device_map VALUES(?,?,NULL)` stores.
StoredRow(gateway_id, gateway_device_id) ==
    [gateway_id |-> NumericAffinity(gateway_id),
     gateway_device_id |-> NumericAffinity(gateway_device_id)]

\* `SELECT sg_device_id FROM device_map WHERE gateway_id=? AND gateway_device_id=?`
\* and fetchone: the id of the first matching row, 0 when there is none.
SelectDeviceId(rows, gateway_id, gateway_device_id) ==
    LET hits == {i \in DOMAIN rows : rows[i] = StoredRow(gateway_id, gateway_device_id)}
    IN  IF hits = {} THEN 0 ELSE CHOOSE i \in hits : \A j \in hits : i <= j

\* `with self._lock`: the re-entrant lock is free or held by the calling thread.
LockAvailable(owner, t) == owner = 0 \/ owner = t

\* A thread calls get_device_id(gateway_id, gateway_device_id) and waits for the lock.
GetDeviceId(t, gateway_id, gateway_device_id) ==
    /\ dm_thread[t].pc = "idle"
    /\ dm_thread' = [dm_thread EXCEPT ![t] =
                        [pc |-> "lock", gateway_id |-> gateway_id,
                         gateway_device_id |-> gateway_device_id, row |-> 0]]
    /\ UNCHANGED <<device_map, dm_lock, dm_returned, p_day, history_buckets, changed_on,
                   sig_handler, sig_last>>
    /\ OtherThanPersist

\* get_area_id(area_id): get_device_id('__area__', area_id).
GetAreaId(t, area_id) == GetDeviceId(t, AreaGatewayId, area_id)

\* get_device_id: the lock is taken, the SELECT is executed and the row fetched.
DmSelect(t) ==
    /\ dm_thread[t].pc = "lock"
    /\ LockAvailable(dm_lock, t)
    /\ dm_lock' = t
    /\ dm_thread' = [dm_thread EXCEPT ![t].pc = "selected",
                                      ![t].row = SelectDeviceId(device_map, dm_thread[t].gateway_id,
                                                                dm_thread[t].gateway_device_id)]
    /\ UNCHANGED <<device_map, dm_returned, p_day, history_buckets, changed_on, sig_handler,
                   sig_last>>
    /\ OtherThanPersist

\* get_device_id: the id of the row found is returned, or a row is inserted,
\* committed, and its rowid returned; the lock is released.
DmReturn(t) ==
    /\ dm_thread[t].pc = "selected"
    /\ LET call == dm_thread[t]
           dev_id == IF call.row # 0 THEN call.row ELSE Len(device_map) + 1
       IN  /\ device_map' =
                 IF call.row # 0 THEN device_map
                 ELSE Append(device_map, StoredRow(call.gateway_id, call.gateway_device_id))
           /\ dm_returned' = dm_returned \cup
                 {[gateway_id |-> call.gateway_id, gateway_device_id |-> call.gateway_device_id,
                   id |-> dev_id]}
    /\ dm_lock' = 0
    /\ dm_thread' = [dm_thread EXCEPT ![t].pc = "idle"]
    /\ UNCHANGED <<p_day, history_buckets, changed_on, sig_handler, sig_last>>
    /\ OtherThanPersist

DeviceMapNext ==
    \/ \E t \in PersistThreads, d \in GatewayDeviceIds : GetDeviceId(t, RaGatewayId, d)
    \/ \E t \in PersistThreads, a \in AreaNames : GetAreaId(t, a)
    \/ \E t \in PersistThreads : DmSelect(t)
    \/ \E t \in PersistThreads : DmReturn(t)

\* ---------------------------------------------------------------------------
\* C22: get_device_id is stable and injective: every call for a pair returns the
\* same integer, also when threads call it at the same time for a pair that is not
\* stored yet, and then one row is created; distinct pairs, area names under the
\* reserved gateway id included, get distinct integers, and an id is never given to
\* another pair later.
C22_DeviceIdStableInjective ==
    /\ \A r1, r2 \in dm_returned :
          (r1.gateway_id = r2.gateway_id /\ r1.gateway_device_id = r2.gateway_device_id)
              <=> r1.id = r2.id
    /\ \A i, j \in DOMAIN device_map : device_map[i] = device_map[j] => i = j

\* ---------------------------------------------------------------------------
\* State changes recorded for one device, and days the clock passes, in one run.
MaxChanges == 2
MaxDays == 1

\* The devices whose state is recorded: '24' and 'K' of one gateway.
RecordedDeviceIds == {<<50, 52>>, <<75>>}

\* get_device_id as the other public calls use it, the lock already held: the id
\* returned, and the rows of device_map afterwards.
DeviceIdOf(rows, gateway_id, gateway_device_id) ==
    IF SelectDeviceId(rows, gateway_id, gateway_device_id) # 0
    THEN SelectDeviceId(rows, gateway_id, gateway_device_id)
    ELSE Len(rows) + 1

RowsWith(rows, gateway_id, gateway_device_id) ==
    IF SelectDeviceId(rows, gateway_id, gateway_device_id) # 0
    THEN rows
    ELSE Append(rows, StoredRow(gateway_id, gateway_device_id))

\* _tally_device_state_history(dev_id, ..., changed): the row of bucket 1 is
\* written back, num_changes one higher when changed.
TallyDeviceStateHistory(buckets, dev_id, changed) ==
    [buckets EXCEPT ![dev_id][1] = IF changed THEN @ + 1 ELSE @]

\* _checkpoint_all: _checkpoint_device_state for every row of device_map.
RECURSIVE CheckpointRows(_, _)
CheckpointRows(buckets, ids) ==
    IF ids = {} THEN buckets
    ELSE LET id == CHOOSE x \in ids : TRUE
         IN  CheckpointRows(TallyDeviceStateHistory(buckets, id, FALSE), ids \ {id})

\* get_action_count(gateway_id, gateway_device_id, bucket): num_changes of the row
\* of the bucket, 0 when there is no row.
GetActionCount(dev_id, bucket) == history_buckets[dev_id][bucket]

\* init_device_state(gateway_id, gateway_device_id, state): the state a device
\* reports at startup is stored in device_status; nothing is tallied.
InitDeviceState(d) ==
    /\ sig_last.running
    /\ SelectDeviceId(device_map, RaGatewayId, d) = 0
    /\ device_map' = RowsWith(device_map, RaGatewayId, d)
    /\ UNCHANGED <<dm_lock, dm_thread, dm_returned, p_day, history_buckets, changed_on,
                   sig_handler, sig_last>>
    /\ OtherThanPersist

\* on_device_state_change(gateway_id, gateway_device_id, state): the change is
\* stored in device_status and tallied into the history bucket.
OnDeviceStateChange(d) ==
    /\ sig_last.running
    /\ LET dev_id == DeviceIdOf(device_map, RaGatewayId, d)
       IN  /\ Len(changed_on[dev_id]) < MaxChanges
           /\ history_buckets' = TallyDeviceStateHistory(history_buckets, dev_id, TRUE)
           /\ changed_on' = [changed_on EXCEPT ![dev_id] = Append(@, p_day)]
    /\ device_map' = RowsWith(device_map, RaGatewayId, d)
    /\ UNCHANGED <<dm_lock, dm_thread, dm_returned, p_day, sig_handler, sig_last>>
    /\ OtherThanPersist

\* A day ends.  No bucket is rolled over.
PersistTick ==
    /\ sig_last.running
    /\ p_day < MaxDays
    /\ p_day' = p_day + 1
    /\ UNCHANGED <<device_map, dm_lock, dm_thread, dm_returned, history_buckets, changed_on,
                   sig_handler, sig_last>>
    /\ OtherThanPersist

\* sg_signal.init() is called after the persistence object was constructed.
SgSignalInitLater ==
    /\ sig_last.running
    /\ sig_handler # SgSignalInit(sig_handler)
    /\ sig_handler' = SgSignalInit(sig_handler)
    /\ UNCHANGED <<device_map, dm_lock, dm_thread, dm_returned, p_day, history_buckets,
                   changed_on, sig_last>>
    /\ OtherThanPersist

\* The handler of persistence runs _checkpoint_all; the handlers of sg_signal call
\* the exit or hup listeners, none of which is registered by persistence; without
\* a handler SIGQUIT ends the process at once.
RunsCheckpointAll(signum) == sig_handler[signum] = "persistence"

\* handle_signal exits unless the signal is SIGHUP; handle_exit_signal exits;
\* handle_hup_signal returns; the default action of SIGQUIT ends the process.
ExitsOn(signum) ==
    IF sig_handler[signum] = "persistence" THEN signum # "SIGHUP"
    ELSE IF sig_handler[signum] = "sg_signal" THEN signum \in {"SIGINT", "SIGTERM", "SIGQUIT"}
    ELSE TRUE

\* The process receives a signal and the installed handler runs in the main thread.
ReceiveSignal(signum) ==
    /\ sig_last.running
    /\ history_buckets' =
          IF RunsCheckpointAll(signum)
          THEN CheckpointRows(history_buckets, DOMAIN device_map) ELSE history_buckets
    /\ sig_last' = [running |-> ~ExitsOn(signum), signum |-> signum,
                    checkpoint_all |-> RunsCheckpointAll(signum),
                    checkpointed |-> IF RunsCheckpointAll(signum) THEN DOMAIN device_map ELSE {},
                    known |-> DOMAIN device_map]
    /\ UNCHANGED <<device_map, dm_lock, dm_thread, dm_returned, p_day, changed_on, sig_handler>>
    /\ OtherThanPersist

PersistNext ==
    \/ \E d \in RecordedDeviceIds : InitDeviceState(d)
    \/ \E d \in RecordedDeviceIds : OnDeviceStateChange(d)
    \/ PersistTick
    \/ SgSignalInitLater
    \/ \E signum \in Signals : ReceiveSignal(signum)

\* The changes of a device that fall into the window of a bucket: those of the
\* current day for bucket 1; the month, the year and the lifetime hold every day of
\* a run.
ChangesInWindow(dev_id, bucket) ==
    IF bucket = 1
    THEN Cardinality({i \in DOMAIN changed_on[dev_id] : changed_on[dev_id][i] = p_day})
    ELSE Len(changed_on[dev_id])

\* ---------------------------------------------------------------------------
\* C24: for every device, after any sequence of startup records, change records
\* and checkpoints, get_action_count is the number of changes recorded for the
\* device in the requested window; startup records and checkpoints do not count.
C24_ActionCountIsChangesInWindow ==
    \A dev_id \in DOMAIN device_map, bucket \in Buckets :
        GetActionCount(dev_id, bucket) = ChangesInWindow(dev_id, bucket)

\* ---------------------------------------------------------------------------
\* C27: after SIGINT, SIGTERM or SIGQUIT the process has exited and a checkpoint of
\* every known device was completed before; after SIGHUP the checkpoint was taken
\* and the process is still running.
C27_CheckpointOnSignal ==
    sig_last.signum # "none" =>
        /\ sig_last.checkpoint_all
        /\ sig_last.checkpointed = sig_last.known
        /\ sig_last.running <=> sig_last.signum = "SIGHUP"

\* ===========================================================================
\* connections.CrlfSocketBuffer
\* ===========================================================================
\* Bytes one recv returns at most, and read_lines calls in one run.
MaxChunkLen == 2
MaxChunks == 2

\* The bytes on the wire: CR, LF and a letter.
CR == 13
LF == 10
WireBytes == {CR, LF, 65}

\* What one recv can return; the empty string when the other end has closed.
Chunks == UNION {[1..n -> WireBytes] : n \in 0..MaxChunkLen}

OtherThanBuffer ==
    UNCHANGED <<loaderVars, connVars, timerVars, raVars, dscVars, codecVars, readerVars,
                delayVars, paranoidVars, bridgeVars, busVars, persistVars, getVars, sessVars, wdaVars, fwdVars, dsVars, loopVars>>

\* CrlfSocketBuffer(socket) has been constructed.
BufferStart ==
    /\ leftovers = <<>>
    /\ rl_calls = [received |-> <<>>, lines |-> <<>>, before |-> <<>>, chunk |-> <<>>,
                   returned |-> <<>>, closed |-> FALSE, count |-> 0]

\* No buffer is used: what the other specifications start from.
BufferIdle == BufferStart

\* A mutant of SplitCrlf: the data is split at every LF.
RECURSIVE SplitLf(_, _)
SplitLf(data, line) ==
    IF data = <<>> THEN <<line>>
    ELSE IF data[1] = LF THEN <<line>> \o SplitLf(Tail(data), <<>>)
    ELSE SplitLf(Tail(data), Append(line, data[1]))

\* `data.split('\r\n')`, with the line begun so far: the pieces between the
\* occurrences of CR LF, found from left to right; the last piece is what follows
\* the last occurrence.
RECURSIVE SplitCrlf(_, _)
SplitCrlf(data, line) ==
    IF data = <<>> THEN <<line>>
    ELSE IF Len(data) >= 2 /\ data[1] = CR /\ data[2] = LF
         THEN <<line>> \o SplitCrlf(SubSeq(data, 3, Len(data)), <<>>)
    ELSE SplitCrlf(Tail(data), Append(line, data[1]))

\* read_lines: recv returns a chunk.  An empty chunk raises; otherwise the chunk is
\* appended to the leftovers, the data is split, the last piece becomes the new
\* leftovers and the pieces before it are returned.
ReadLines(chunk) ==
    /\ ~rl_calls.closed
    /\ rl_calls.count < MaxChunks
    /\ LET lines == SplitCrlf(leftovers \o chunk, <<>>)
       IN  IF chunk = <<>>
           THEN /\ rl_calls' = [rl_calls EXCEPT !.closed = TRUE]
                /\ UNCHANGED leftovers
           ELSE /\ leftovers' = lines[Len(lines)]
                /\ rl_calls' = [received |-> rl_calls.received \o chunk,
                                lines |-> rl_calls.lines \o SubSeq(lines, 1, Len(lines) - 1),
                                before |-> leftovers,
                                chunk |-> chunk,
                                returned |-> SubSeq(lines, 1, Len(lines) - 1),
                                closed |-> FALSE,
                                count |-> rl_calls.count + 1]
    /\ OtherThanBuffer

BufferNext == \E chunk \in Chunks : ReadLines(chunk)

\* The lines, each followed by CR LF, one after the other.
RECURSIVE WithCrlf(_)
WithCrlf(lines) ==
    IF lines = <<>> THEN <<>> ELSE Head(lines) \o <<CR, LF>> \o WithCrlf(Tail(lines))

\* ---------------------------------------------------------------------------
\* C25: for every sequence of chunks recv returns, the lines read_lines has
\* returned, each followed by CR LF, and then the leftovers, are the bytes of the
\* chunks in order; and when a CR LF is split between two chunks, the line it ends
\* is returned by the call that receives the second chunk.
C25_LinesAndLeftoversAreTheChunks ==
    /\ WithCrlf(rl_calls.lines) \o leftovers = rl_calls.received
    /\ (rl_calls.before # <<>> /\ rl_calls.before[Len(rl_calls.before)] = CR
          /\ rl_calls.chunk # <<>> /\ rl_calls.chunk[1] = LF)
       => /\ rl_calls.returned # <<>>
          /\ rl_calls.returned[1] = SubSeq(rl_calls.before, 1, Len(rl_calls.before) - 1)

\* The first chunk ended with a letter and CR, the second one began with LF: the
\* line with the letter has been returned by the second call, not by the first.
C25_Witness ==
    /\ rl_calls.count = 2
    /\ rl_calls.before = <<65, CR>>
    /\ rl_calls.chunk[1] = LF
    /\ rl_calls.lines = <<<<65>>>>

\* ===========================================================================
\* gateways.radiora2.ra_repeater.OutputCache: the blocking getters
\* ===========================================================================
\* One thread other than the repeater's listener thread (a rule, a web request)
\* calls a getter while the listener thread records replies; refresh requests of
\* _bind_repeater go on as well.

OtherThanRaGet == UNCHANGED <<loaderVars, connVars, timerVars, dscVars, codecVars, readerVars, delayVars, paranoidVars, bridgeVars, busVars, persistVars, bufferVars, sessVars, wdaVars, fwdVars, dsVars, loopVars>>

\* No getter has been called.  sent counts the queries the call has sent, dup tells
\* that one of them was sent while a query for the iid was unanswered, wrote that
\* the calling thread stored a value in the cache.
GetIdle ==
    getter = [pc |-> "idle", kind |-> "output", iid |-> 1, sent |-> 0, dup |-> FALSE,
              wrote |-> FALSE, result |-> Stale]

\* `self.output_levels[iid]`, `self.button_states[iid][cid]`, `self.led_states[iid][cid]`.
CacheValue(kind, iid) ==
    CASE kind = "output" -> output_levels[iid]
      [] kind = "button" -> button_states[iid]
      [] kind = "led" -> led_states[iid]

\* The test of the getter's while loop on the value just read.
AfterRead(g, value) ==
    IF value = Stale THEN [g EXCEPT !.pc = "refresh"]
    ELSE [g EXCEPT !.pc = "returned", !.result = value]

\* get_output_level, get_button_state, get_led_state: the first read of the cache.
GetCall(kind, iid) ==
    /\ getter.pc = "idle"
    /\ getter' = AfterRead([getter EXCEPT !.kind = kind, !.iid = iid], CacheValue(kind, iid))
    /\ UNCHANGED raVars
    /\ OtherThanRaGet

\* The loop body for an output or an LED: _refresh_output or _refresh_led marks the
\* iid and sends the query, whatever `refreshing` holds.
GetRefresh ==
    /\ getter.pc = "refresh"
    /\ getter.kind \in {"output", "led"}
    /\ refresh_count[getter.iid] < MaxRefreshes
    /\ refreshing' = MarkRefreshPending(refreshing, getter.iid)
    /\ CountRefresh(getter.iid)
    /\ getter' = [getter EXCEPT !.pc = "sleep", !.sent = @ + 1,
                                !.dup = @ \/ owed[getter.iid] > 0]
    /\ UNCHANGED <<output_levels, button_states, led_states, ra_published>>
    /\ OtherThanRaGet

\* The loop body for a button, first half: _refresh_button marks the iid.
GetMarkButton ==
    /\ getter.pc = "refresh"
    /\ getter.kind = "button"
    /\ refresh_count[getter.iid] < MaxRefreshes
    /\ refreshing' = MarkRefreshPending(refreshing, getter.iid)
    /\ refresh_count' = [refresh_count EXCEPT ![getter.iid] = @ + 1]
    /\ getter' = [getter EXCEPT !.pc = "record"]
    /\ UNCHANGED <<output_levels, button_states, led_states, ra_published, record_count, owed>>
    /\ OtherThanRaGet

\* The loop body for a button, second half: _refresh_button calls
\* _record_button_state(iid, bid, 0) on the calling thread.
GetRecordButton ==
    /\ getter.pc = "record"
    /\ record_count[getter.iid] < MaxRecords
    /\ button_states' = [button_states EXCEPT ![getter.iid] = 0]
    /\ ra_published' = <<[iid |-> getter.iid, state |-> 0, comp |-> "button",
                          refresh |-> BroadcastRefresh(refreshing, getter.iid)]>>
    /\ refreshing' = AfterBroadcast(refreshing, getter.iid)
    /\ record_count' = [record_count EXCEPT ![getter.iid] = @ + 1]
    /\ getter' = [getter EXCEPT !.pc = "sleep", !.wrote = TRUE]
    /\ UNCHANGED <<output_levels, led_states, refresh_count, owed>>
    /\ OtherThanRaGet

\* `time.sleep(0.1)` is over: the cache is read again.
GetPoll ==
    /\ getter.pc = "sleep"
    /\ getter' = AfterRead(getter, CacheValue(getter.kind, getter.iid))
    /\ UNCHANGED raVars
    /\ OtherThanRaGet

RaGetNext ==
    \/ RaNext
    \/ \E iid \in OutputIids : GetCall("output", iid)
    \/ \E iid \in DeviceIids, kind \in {"button", "led"} : GetCall(kind, iid)
    \/ GetRefresh
    \/ GetMarkButton
    \/ GetRecordButton
    \/ GetPoll

\* ---------------------------------------------------------------------------
\* C31: a blocking get on a stale entry sends a refresh query only if no query for
\* the entity is unanswered, sends no further query while it polls, and returns a
\* value that is not stale.
C31_GetSendsOneQueryIfNoneInFlight ==
    /\ ~getter.dup
    /\ getter.sent <= 1
    /\ getter.pc = "returned" => getter.result # Stale

\* ---------------------------------------------------------------------------
\* C32: values are stored in the cache, and the changes broadcast, on the listener
\* thread only, and the listener thread never records a button of a device while
\* another thread is between the bookkeeping and the store for the same device.
C32_CacheWrittenOnReaderThreadOnly ==
    /\ [](~getter.wrote)
    /\ [][\A iid \in DeviceIids :
            (\E state \in States : RecordButton(iid, state))
                => ~(getter.pc = "record" /\ getter.iid = iid)]_vars

\* ===========================================================================
\* gateways.powerseries.dsc_panel.DscPanelServer.connect, statement by statement,
\* with the callers of send_dsc_command, the sender and the cleanup task
\* ===========================================================================
\* Socket objects connect() makes in one run: the first connection, attempts that
\* raise, reconnections.
MaxSockets == 3

\* Calls of send_dsc_command by other threads.
MaxCalls == 2

SsSockets == 1..MaxSockets

OtherThanSession == UNCHANGED <<loaderVars, connVars, timerVars, raVars, dscVars, codecVars, readerVars, delayVars, paranoidVars, bridgeVars, busVars, persistVars, bufferVars, getVars, wdaVars, fwdVars, dsVars, loopVars>>

\* The gateway is being built: connect() is about to be called for the first time.
SessionStart ==
    /\ ss_pc = "none"
    /\ ss_socket = 0
    /\ ss_closed = {}
    /\ ss_queue = <<>>
    /\ ss_sender = [sock |-> 0, pc |-> "none"]
    /\ ss_wire = [g \in SsSockets |-> <<>>]
    /\ ss_cleanup = "first"
    /\ ss_hist = [calls |-> 0, connects |-> 0, marked |-> FALSE, status_marked |-> <<>>,
                  dropped |-> <<>>]

\* No session is made: what the other specifications start from.
SessionIdle ==
    /\ ss_pc = "none"
    /\ ss_socket = 0
    /\ ss_closed = {}
    /\ ss_queue = <<>>
    /\ ss_sender = [sock |-> 0, pc |-> "none"]
    /\ ss_wire = [g \in SsSockets |-> <<>>]
    /\ ss_cleanup = "none"
    /\ ss_hist = [calls |-> 0, connects |-> 0, marked |-> FALSE, status_marked |-> <<>>,
                  dropped |-> <<>>]

\* `self.send_queue.put(str(cmdline))`: the item goes to the queue delegate.send_queue
\* names at this moment.
QueuePut(q, cmd) == Append(q, [cmd |-> cmd, on |-> ss_socket])

\* A mutant of NewQueue: connect() goes on with the queue it finds.
QueueKept(q) == q

\* `self.send_queue = Queue.Queue()`.
NewQueue(q) == <<>>

\* connect(), `self.socket = socket.socket(...); self.socket.connect(...)` and the
\* start of the listener: called by the thread that builds the gateway ("first"),
\* later by the CleanupAndRestart of the failed socket.  When socket.connect raises,
\* connect() is left with the new socket object in self.socket; the cleanup task
\* tries again, the gateway that is being built is given up.
SsConnectSocket ==
    /\ ss_cleanup \in {"first", "reconnect"}
    /\ ss_pc = "none"
    /\ ss_socket < MaxSockets
    /\ ss_socket' = ss_socket + 1
    /\ \/ ss_pc' = "queue" /\ ss_cleanup' = "connecting"
       \/ ss_cleanup' = (IF ss_cleanup = "first" THEN "failed" ELSE "reconnect") /\ UNCHANGED ss_pc
    /\ ss_hist' = [ss_hist EXCEPT !.marked = FALSE]
    /\ UNCHANGED <<ss_closed, ss_queue, ss_sender, ss_wire>>
    /\ OtherThanSession

\* connect(), lines 101-106: the new queue, the sender of the new socket, the
\* registration with the watchdog.
SsNewQueue ==
    /\ ss_pc = "queue"
    /\ ss_queue' = NewQueue(ss_queue)
    /\ ss_sender' = [sock |-> ss_socket, pc |-> "run"]
    /\ ss_pc' = "login"
    /\ ss_hist' = [ss_hist EXCEPT !.dropped = ss_queue]
    /\ UNCHANGED <<ss_socket, ss_closed, ss_wire, ss_cleanup>>
    /\ OtherThanSession

\* connect(), `self.send_dsc_command(005, self.password)`.
SsLogin ==
    /\ ss_pc = "login"
    /\ ss_queue' = QueuePut(ss_queue, LoginCmd)
    /\ ss_pc' = "mark"
    /\ UNCHANGED <<ss_socket, ss_closed, ss_sender, ss_wire, ss_cleanup, ss_hist>>
    /\ OtherThanSession

\* connect(), `self.cache.mark_all_stale()` has returned.
SsMark ==
    /\ ss_pc = "mark"
    /\ ss_hist' = [ss_hist EXCEPT !.marked = TRUE]
    /\ ss_pc' = "status"
    /\ UNCHANGED <<ss_socket, ss_closed, ss_queue, ss_sender, ss_wire, ss_cleanup>>
    /\ OtherThanSession

\* connect(), `self.send_dsc_command(001)`; connect() returns, and the cleanup task
\* that called it ends.
SsStatus ==
    /\ ss_pc = "status"
    /\ ss_queue' = QueuePut(ss_queue, StatusCmd)
    /\ ss_pc' = "none"
    /\ ss_cleanup' = "none"
    /\ ss_hist' = [ss_hist EXCEPT !.connects = @ + 1,
                                  !.status_marked = Append(@, ss_hist.marked)]
    /\ UNCHANGED <<ss_socket, ss_closed, ss_sender, ss_wire>>
    /\ OtherThanSession

\* send_dsc_command on another thread (a rule, a web request): such threads exist
\* once the gateway has been built, i.e. after the first connect() has returned.
SsClientSend ==
    /\ ss_hist.connects >= 1
    /\ ss_hist.calls < MaxCalls
    /\ ss_queue' = QueuePut(ss_queue, ClientCmd(<<>>) + ss_hist.calls)
    /\ ss_hist' = [ss_hist EXCEPT !.calls = @ + 1]
    /\ UNCHANGED <<ss_pc, ss_socket, ss_closed, ss_sender, ss_wire, ss_cleanup>>
    /\ OtherThanSession

\* One turn of SenderThread.run: `cmd = self.delegate.send_queue.get()` takes the
\* oldest item of the queue the delegate names now, `sock.send` writes it to the
\* socket the thread was started with, or raises when that socket is closed: then
\* the sender closes the socket and ends.
SsSenderTurn ==
    /\ ss_sender.pc = "run"
    /\ ss_queue # <<>>
    /\ ss_queue' = Dequeue(ss_queue).rest
    /\ IF ss_sender.sock \in ss_closed
       THEN /\ ss_sender' = [ss_sender EXCEPT !.pc = "done"]
            /\ UNCHANGED ss_wire
       ELSE /\ ss_wire' = [ss_wire EXCEPT ![ss_sender.sock] = Append(@, Dequeue(ss_queue).cmd)]
            /\ UNCHANGED ss_sender
    /\ UNCHANGED <<ss_pc, ss_socket, ss_closed, ss_cleanup, ss_hist>>
    /\ OtherThanSession

\* The connection of the current socket fails: its listener leaves the loop and
\* closes the socket (ListenerThread.run, `sock.close()`).
SsFail ==
    /\ ss_sender.pc = "run"
    /\ ss_sender.sock = ss_socket
    /\ ss_socket \notin ss_closed
    /\ ss_closed' = ss_closed \cup {ss_socket}
    /\ UNCHANGED <<ss_pc, ss_socket, ss_queue, ss_sender, ss_wire, ss_cleanup, ss_hist>>
    /\ OtherThanSession

\* CleanupAndRestart.run for the closed socket: the listener has ended, '' is put on
\* the delegate's queue for the sender.  The watchdog starts the task when it finds
\* the socket closed; the two seconds the previous task slept before its connect()
\* are taken to outlast the rest of that connect().
SsCleanupPoke ==
    /\ ss_cleanup = "none"
    /\ ss_pc = "none"
    /\ ss_socket \in ss_closed
    /\ ss_queue' = QueuePut(ss_queue, Sentinel)
    /\ ss_cleanup' = "join"
    /\ UNCHANGED <<ss_pc, ss_socket, ss_closed, ss_sender, ss_wire, ss_hist>>
    /\ OtherThanSession

\* CleanupAndRestart.run: the join of the sender returns.
SsCleanupJoin ==
    /\ ss_cleanup = "join"
    /\ ThreadExited(ss_sender.pc)
    /\ ss_cleanup' = "reconnect"
    /\ UNCHANGED <<ss_pc, ss_socket, ss_closed, ss_queue, ss_sender, ss_wire, ss_hist>>
    /\ OtherThanSession

SessionNext ==
    \/ SsConnectSocket
    \/ SsNewQueue
    \/ SsLogin
    \/ SsMark
    \/ SsStatus
    \/ SsClientSend
    \/ SsSenderTurn
    \/ SsFail
    \/ SsCleanupPoke
    \/ SsCleanupJoin

\* ---------------------------------------------------------------------------
\* C33: on every connection the login 005 is the first line written to the socket,
\* the cache has been marked stale when the status request 001 is enqueued, and 001
\* is written after 005, whatever other threads send meanwhile.
C33_LoginFirstThenStatus ==
    /\ \A g \in SsSockets : ss_wire[g] # <<>> => ss_wire[g][1].cmd = LoginCmd
    /\ \A i \in DOMAIN ss_hist.status_marked : ss_hist.status_marked[i]
    /\ \A g \in SsSockets : \A i \in DOMAIN ss_wire[g] :
          ss_wire[g][i].cmd = StatusCmd => \E j \in 1..(i - 1) : ss_wire[g][j].cmd = LoginCmd

\* ---------------------------------------------------------------------------
\* C34: what is written to a socket was enqueued while that socket was the
\* delegate's socket, and is never the empty line of the cleanup task: a command
\* left on the queue when the connection failed and the empty line are not written
\* to the socket of a later connection.
C34_PendingAndSentinelDiscarded ==
    \A g \in SsSockets : \A i \in DOMAIN ss_wire[g] :
        /\ ss_wire[g][i].cmd # Sentinel
        /\ ss_wire[g][i].on = g

\* A command of another thread and the empty line were on the queue that the
\* reconnect replaced, and the new connection has written its login.
C34_Witness ==
    /\ \E i \in DOMAIN ss_hist.dropped : ss_hist.dropped[i].cmd = Sentinel
    /\ \E i \in DOMAIN ss_hist.dropped :
          ss_hist.dropped[i].cmd >= ClientCmd(<<>>) /\ ss_hist.dropped[i].on = 1
    /\ \E g \in SsSockets : g > 1 /\ ss_wire[g] # <<>>

\* ===========================================================================
\* connections.SgWatchdog.add against SgWatchdog.run
\* ===========================================================================
\* Threads that register a socket each; thread t registers socket t.  No socket is
\* closed or fails here, so that only the wake pipe can end a select.
NumAdders == 3

Adders == 1..NumAdders

OtherThanWdAdd == UNCHANGED <<loaderVars, timerVars, raVars, dscVars, codecVars, readerVars, delayVars, paranoidVars, bridgeVars, busVars, persistVars, bufferVars, getVars, sessVars, fwdVars, dsVars, loopVars>>

\* Nobody has called add.
WdAddIdle == wd_adds = [t \in Adders |-> "idle"]

\* A mutant of PipeAfterWrite: nothing is written.
PipeNotWritten(p) == p

\* `os.write(self.write_wake, '1')`: one more byte waits in the pipe.
PipeAfterWrite(p) == p + 1

\* SgWatchdog.add, `with self.lock: self.watches[socket] = (threads, reconnect)`.
WdAddInsert(t) ==
    /\ wd_adds[t] = "idle"
    /\ watches' = watches \cup {t}
    /\ wd_adds' = [wd_adds EXCEPT ![t] = "poke"]
    /\ UNCHANGED <<main_pc, sock_gen, sock_closed, conn, listener_pc, sender_pc, send_queue,
                   wire, enq_log, shorts, failures, wd_pc, wd_list, pipe, cleanup, started,
                   delays_log, reconnect_log>>
    /\ OtherThanWdAdd

\* SgWatchdog.add, `os.write(self.write_wake, '1')`.
WdAddPoke(t) ==
    /\ wd_adds[t] = "poke"
    /\ pipe' = PipeAfterWrite(pipe)
    /\ wd_adds' = [wd_adds EXCEPT ![t] = "done"]
    /\ UNCHANGED <<main_pc, sock_gen, sock_closed, conn, listener_pc, sender_pc, send_queue,
                   wire, enq_log, shorts, failures, watches, wd_pc, wd_list, cleanup, started,
                   delays_log, reconnect_log>>
    /\ OtherThanWdAdd

WdAddNext ==
    \/ \E t \in Adders : WdAddInsert(t)
    \/ \E t \in Adders : WdAddPoke(t)
    \/ WdSnapshot
    \/ WdSelect

\* The watchdog thread is scheduled; the callers of add need not be.
WdAddFairness ==
    /\ WF_connVars(WdSnapshot)
    /\ WF_connVars(WdSelect)

\* A select is running, or about to be called, with the socket of t in its list.
Watched(t) == wd_pc = "select" /\ t \in wd_list

\* C35: the wakeup is not lost: when add has returned and the watchdog is in a
\* select whose list lacks the socket, a byte waits in the pipe.
C35_WakeupNotLost ==
    \A t \in Adders :
        (wd_adds[t] = "done" /\ wd_pc = "select" /\ t \notin wd_list) => pipe > 0

\* C35: a socket registered with add, at whatever moment of the watchdog's loop, is
\* in the list of a later select without any socket event, and the byte written to
\* the pipe is not lost.
C35_AddReachesSelect ==
    /\ []C35_WakeupNotLost
    /\ \A t \in Adders : (wd_adds[t] = "done") ~> Watched(t)

\* add has returned while the watchdog is in a select called without the socket.
C35_Witness ==
    \E t \in Adders : wd_adds[t] = "done" /\ wd_pc = "select" /\ t \notin wd_list

\* ===========================================================================
\* gateways.powerseries.dsc_reflector: Reflector.to_children on the panel's
\* listener thread, child by child, against the thread of ReflectorParentThread
\* ===========================================================================
\* Panel frames forwarded in one run.
MaxForwards == 2

OtherThanForward == UNCHANGED <<loaderVars, connVars, timerVars, raVars, codecVars, delayVars, paranoidVars, bridgeVars, busVars, persistVars, bufferVars, getVars, sessVars, wdaVars, dsVars, loopVars>>

\* No frame is being forwarded.  pc is "loop" while the listener holds send_lock and
\* runs `for child in self.children`; idx is the position of the list iterator,
\* begun the authenticated children at the start of the loop, sent those the frame
\* has been sent to.
ForwardIdle == fwd = [pc |-> "idle", idx |-> 0, begun |-> {}, sent |-> {}, count |-> 0]

\* The children in the list, by position.
ChildIds(cs) == [i \in DOMAIN cs |-> cs[i].id]

\* Reflector.to_children: `with self.send_lock:` is entered (no other code takes
\* that lock) and ReflectorParentThread.to_children starts its loop.
FwdBegin ==
    /\ fwd.pc \in {"idle", "done"}
    /\ fwd.count < MaxForwards
    /\ fwd' = [pc |-> "loop", idx |-> 1, begun |-> ChildrenToSend(children), sent |-> {},
               count |-> fwd.count + 1]
    /\ UNCHANGED <<readerVars, dscVars>>
    /\ OtherThanForward

\* One turn of `for child in self.children`: the iterator yields the element at its
\* position in the list as the list is now, and the frame is sent to the child when
\* it is authenticated; past the end of the list the loop ends and the lock is
\* released.
FwdStep ==
    /\ fwd.pc = "loop"
    /\ fwd' = IF fwd.idx <= Len(children)
              THEN [fwd EXCEPT !.idx = @ + 1,
                               !.sent = IF children[fwd.idx].authenticated
                                        THEN @ \cup {children[fwd.idx].id} ELSE @]
              ELSE [fwd EXCEPT !.pc = "done"]
    /\ UNCHANGED <<readerVars, dscVars>>
    /\ OtherThanForward

ForwardNext ==
    \/ FwdBegin
    \/ FwdStep
    \/ ReflectorAccept
    \/ \E line \in ChildLines : ChildLine(line)
    \/ ChildExit

\* ---------------------------------------------------------------------------
\* C37: no child is removed from the list while a frame is being forwarded to the
\* children (the removal of a closed client waits for the send lock), and a client
\* that was authenticated when the forwarding began and is still connected when it
\* ends has been sent the frame.
C37_NoRemovalDuringForward ==
    /\ [][(fwd.pc = "loop" /\ fwd'.pc = "loop")
             => \A i \in DOMAIN children : \E j \in DOMAIN children' :
                   ChildIds(children')[j] = ChildIds(children)[i]]_vars
    /\ [](fwd.pc = "done" => (fwd.begun \cap ChildrenToSend(children)) \subseteq fwd.sent)

\* ===========================================================================
\* sg_house.StargateHouse._add_devstates_for_ordering, for one devclass:devtype
\* ===========================================================================
\* Devices registered in one run, and the most states one of them supplies.
MaxRegistrations == 2
MaxStates == 3

DevStates == {"on", "half", "off"}

\* The state lists a device may supply: no state twice.
DevStateLists ==
    UNION {{s \in [1..n -> DevStates] : \A i, j \in 1..n : i # j => s[i] # s[j]} :
             n \in 0..MaxStates}

OtherThanDevstates == UNCHANGED <<loaderVars, connVars, timerVars, raVars, dscVars, codecVars, readerVars, delayVars, paranoidVars, bridgeVars, busVars, persistVars, bufferVars, getVars, sessVars, wdaVars, fwdVars, loopVars>>

\* StargateHouse.__init__: no order is stored for the devclass:devtype.
DevstatesIdle ==
    /\ devstate_order = <<>>
    /\ ds_hist = [count |-> 0, supplied |-> {}, before |-> <<>>]

\* `old_order.index(state) + 1`, or 0 where index raises ValueError.
IndexInclusive(old_order, state) ==
    IF \E i \in DOMAIN old_order : old_order[i] = state
    THEN CHOOSE i \in DOMAIN old_order :
            old_order[i] = state /\ \A j \in 1..(i - 1) : old_order[j] # state
    ELSE 0

\* The loop `for state in devstates` from the k-th state on: a state found in what
\* is left of the old order takes the front of it, up to and including the state,
\* into the new order; a state not found there is appended to the new order.  What
\* is left of the old order after the last state is not used.
RECURSIVE MergeDevstates(_, _, _, _)
MergeDevstates(devstates, k, old_order, new_order) ==
    IF k > Len(devstates) THEN new_order
    ELSE LET old_index == IndexInclusive(old_order, devstates[k])
         IN  IF old_index > 0
             THEN MergeDevstates(devstates, k + 1,
                                 SubSeq(old_order, old_index + 1, Len(old_order)),
                                 new_order \o SubSeq(old_order, 1, old_index))
             ELSE MergeDevstates(devstates, k + 1, old_order,
                                 Append(new_order, devstates[k]))

\* _add_devstates_for_ordering(devclass, devtype, devstates).
AddDevstatesForOrdering(devstates) ==
    /\ ds_hist.count < MaxRegistrations
    /\ devstate_order' = MergeDevstates(devstates, 1, devstate_order, <<>>)
    /\ ds_hist' = [count |-> ds_hist.count + 1,
                   supplied |-> ds_hist.supplied \cup {devstates[i] : i \in DOMAIN devstates},
                   before |-> devstate_order]
    /\ OtherThanDevstates

DevstatesNext == \E devstates \in DevStateLists : AddDevstatesForOrdering(devstates)

\* The first place of state in order (0: none).
PlaceOf(order, state) == IndexInclusive(order, state)

\* ---------------------------------------------------------------------------
\* C39: the stored order holds every state a registration supplied, each once, and
\* two states that were stored before the last registration are in the same
\* relative order after it.
C39_OrderKeepsAllStatesOnce ==
    /\ \A state \in ds_hist.supplied : PlaceOf(devstate_order, state) > 0
    /\ \A i, j \in DOMAIN devstate_order : i # j => devstate_order[i] # devstate_order[j]
    /\ \A i, j \in DOMAIN ds_hist.before :
          (/\ i < j
           /\ PlaceOf(devstate_order, ds_hist.before[i]) > 0
           /\ PlaceOf(devstate_order, ds_hist.before[j]) > 0)
              => PlaceOf(devstate_order, ds_hist.before[i])
                    < PlaceOf(devstate_order, ds_hist.before[j])

\* ===========================================================================
\* gateways.synther.synthesizer.Bridge together with the devices it binds: the
\* panel carries out a user command by toggling what the zone senses and reports
\* the zone, the repeater carries out a set-level command and reports the level.
\* Every rule binds an output and a zone of its own; the rules share the two
\* gateways, their reader threads and their command queues.
\* ===========================================================================
\* Bridge rules in the configuration.
NumBridges == 2

\* User commands counted per rule.
MaxCommands == 3

Bridges == 1..NumBridges

\* The levels a person can set at a Lutron control.
UserLevels == {LevelOff, 50, LevelOn}

OtherThanLoop == UNCHANGED <<loaderVars, connVars, timerVars, raVars, dscVars, codecVars, readerVars, delayVars, paranoidVars, bridgeVars, busVars, persistVars, bufferVars, getVars, sessVars, wdaVars, fwdVars, dsVars>>

\* Nothing is on its way between the rules and the devices.
LoopQuiet ==
    /\ bl_ra_in = <<>>
    /\ bl_dsc_in = <<>>
    /\ bl_ra_out = <<>>
    /\ bl_dsc_out = <<>>

\* The output of rule b is on exactly when its zone is open.
LoopAgrees(b) == IsOn(bl_lutron[b]) = bl_zone[b]

\* Bridge.__init__ has returned for every rule, in the order of the configuration:
\* the caches hold the devices' states, every output is on exactly when its zone is
\* open, and the level each rule has pushed into Lutron (be_on of the zone's state)
\* is a command the repeater has not carried out yet.
RECURSIVE InitialSyncs(_)
InitialSyncs(n) ==
    IF n = 0 THEN <<>>
    ELSE Append(InitialSyncs(n - 1), [rule |-> n, level |-> BeOn(bl_zone[n])])

LoopStart ==
    /\ bl_zone \in [Bridges -> BOOLEAN]
    /\ bl_lutron \in [Bridges -> UserLevels]
    /\ \A b \in Bridges : LoopAgrees(b)
    /\ bl_level = bl_lutron
    /\ bl_open = bl_zone
    /\ bl_ra_in = <<>>
    /\ bl_dsc_in = <<>>
    /\ bl_ra_out = InitialSyncs(NumBridges)
    /\ bl_dsc_out = <<>>
    /\ bl_hist = [b \in Bridges |-> [changed |-> FALSE, cmds |-> 0]]

\* No Bridge rule is at work: what the other specifications start from.
LoopIdle ==
    /\ bl_zone = [b \in Bridges |-> FALSE]
    /\ bl_lutron = [b \in Bridges |-> LevelOff]
    /\ bl_level = [b \in Bridges |-> LevelOff]
    /\ bl_open = [b \in Bridges |-> FALSE]
    /\ LoopQuiet
    /\ bl_hist = [b \in Bridges |-> [changed |-> TRUE, cmds |-> 0]]

\* The one change from outside for rule b, at the Lutron control: the repeater
\* reports the new level.
LoopUserSetsLevel(b) ==
    /\ ~bl_hist[b].changed
    /\ \E level \in UserLevels \ {bl_lutron[b]} :
          /\ bl_lutron' = [bl_lutron EXCEPT ![b] = level]
          /\ bl_ra_in' = Append(bl_ra_in, [rule |-> b, level |-> level])
    /\ bl_hist' = [bl_hist EXCEPT ![b].changed = TRUE]
    /\ UNCHANGED <<bl_zone, bl_level, bl_open, bl_dsc_in, bl_ra_out, bl_dsc_out>>
    /\ OtherThanLoop

\* The one change from outside for rule b, at the switch the zone senses: the panel
\* reports the zone.
LoopUserFlipsSwitch(b) ==
    /\ ~bl_hist[b].changed
    /\ bl_zone' = [bl_zone EXCEPT ![b] = ~@]
    /\ bl_dsc_in' = Append(bl_dsc_in, [rule |-> b, open |-> ~bl_zone[b]])
    /\ bl_hist' = [bl_hist EXCEPT ![b].changed = TRUE]
    /\ UNCHANGED <<bl_lutron, bl_level, bl_open, bl_ra_in, bl_ra_out, bl_dsc_out>>
    /\ OtherThanLoop

\* The repeater's reader thread handles the oldest level report: the cache records
\* it and on_lutron_push of the rule sends the user command when the on-state
\* differs from the zone's open-state in the panel's cache.
LoopOnLutronPush ==
    /\ bl_ra_in # <<>>
    /\ LET b == Head(bl_ra_in).rule
           level == Head(bl_ra_in).level
       IN  /\ bl_level' = [bl_level EXCEPT ![b] = level]
           /\ IF BridgeIssues(IsOn(level), bl_open[b])
              THEN /\ bl_hist[b].cmds < MaxCommands
                   /\ bl_dsc_out' = Append(bl_dsc_out, b)
                   /\ bl_hist' = [bl_hist EXCEPT ![b].cmds = @ + 1]
              ELSE UNCHANGED <<bl_dsc_out, bl_hist>>
    /\ bl_ra_in' = Tail(bl_ra_in)
    /\ UNCHANGED <<bl_lutron, bl_zone, bl_open, bl_dsc_in, bl_ra_out>>
    /\ OtherThanLoop

\* The panel's reader thread handles the oldest zone report: the cache records it
\* and on_physical_push of the rule tells the output to be on exactly when the zone
\* is open.
LoopOnPhysicalPush ==
    /\ bl_dsc_in # <<>>
    /\ LET b == Head(bl_dsc_in).rule
           open == Head(bl_dsc_in).open
       IN  /\ bl_open' = [bl_open EXCEPT ![b] = open]
           /\ bl_ra_out' = Append(bl_ra_out, [rule |-> b, level |-> BeOn(open)])
    /\ bl_dsc_in' = Tail(bl_dsc_in)
    /\ UNCHANGED <<bl_lutron, bl_zone, bl_level, bl_ra_in, bl_dsc_out, bl_hist>>
    /\ OtherThanLoop

\* The repeater carries out the oldest set-level command and reports the level; it
\* may keep silent when the output has that level already.
LoopRepeater ==
    /\ bl_ra_out # <<>>
    /\ LET b == Head(bl_ra_out).rule
           level == Head(bl_ra_out).level
       IN  /\ bl_lutron' = [bl_lutron EXCEPT ![b] = level]
           /\ \/ bl_ra_in' = Append(bl_ra_in, [rule |-> b, level |-> level])
              \/ level = bl_lutron[b] /\ UNCHANGED bl_ra_in
    /\ bl_ra_out' = Tail(bl_ra_out)
    /\ UNCHANGED <<bl_zone, bl_level, bl_open, bl_dsc_in, bl_dsc_out, bl_hist>>
    /\ OtherThanLoop

\* The panel carries out the oldest user command: what the zone senses is toggled,
\* and the panel reports the zone.
LoopPanel ==
    /\ bl_dsc_out # <<>>
    /\ LET b == Head(bl_dsc_out)
       IN  /\ bl_zone' = [bl_zone EXCEPT ![b] = ~@]
           /\ bl_dsc_in' = Append(bl_dsc_in, [rule |-> b, open |-> ~bl_zone[b]])
    /\ bl_dsc_out' = Tail(bl_dsc_out)
    /\ UNCHANGED <<bl_lutron, bl_level, bl_open, bl_ra_in, bl_ra_out, bl_hist>>
    /\ OtherThanLoop

LoopNext ==
    \/ \E b \in Bridges : LoopUserSetsLevel(b)
    \/ \E b \in Bridges : LoopUserFlipsSwitch(b)
    \/ LoopOnLutronPush
    \/ LoopOnPhysicalPush
    \/ LoopRepeater
    \/ LoopPanel

\* The two reader threads and the two devices go on; nobody has to change anything
\* from outside.
LoopFairness ==
    /\ WF_loopVars(LoopOnLutronPush)
    /\ WF_loopVars(LoopOnPhysicalPush)
    /\ WF_loopVars(LoopRepeater)
    /\ WF_loopVars(LoopPanel)

LoaderInit == LoaderStart /\ ConnIdle /\ TimerIdle /\ RaIdle /\ DscIdle /\ CodecIdle /\ ReaderIdle /\ DelayIdle /\ ParanoidIdle /\ BridgeIdle /\ BusIdle /\ PersistIdle /\ BufferIdle /\ GetIdle /\ SessionIdle /\ WdAddIdle /\ ForwardIdle /\ DevstatesIdle /\ LoopIdle

SpecLoader == LoaderInit /\ [][LoaderNext]_vars

SpecLoaderLive == LoaderInit /\ [][LoaderNext]_vars /\ LoaderFairness

ConnInit == ConnStart /\ LoaderIdle /\ TimerIdle /\ RaIdle /\ DscIdle /\ CodecIdle /\ ReaderIdle /\ DelayIdle /\ ParanoidIdle /\ BridgeIdle /\ BusIdle /\ PersistIdle /\ BufferIdle /\ GetIdle /\ SessionIdle /\ WdAddIdle /\ ForwardIdle /\ DevstatesIdle /\ LoopIdle

SpecConn == ConnInit /\ [][ConnNext]_vars /\ ConnFairness

TimerInit == TimerStart /\ LoaderIdle /\ ConnIdle /\ RaIdle /\ DscIdle /\ CodecIdle /\ ReaderIdle /\ DelayIdle /\ ParanoidIdle /\ BridgeIdle /\ BusIdle /\ PersistIdle /\ BufferIdle /\ GetIdle /\ SessionIdle /\ WdAddIdle /\ ForwardIdle /\ DevstatesIdle /\ LoopIdle

SpecTimer == TimerInit /\ [][TimerNext]_vars

SpecTimerLive == TimerInit /\ [][TimerLiveNext]_vars /\ TimerFairness

RaInit == RaStart /\ LoaderIdle /\ ConnIdle /\ TimerIdle /\ DscIdle /\ CodecIdle /\ ReaderIdle /\ DelayIdle /\ ParanoidIdle /\ BridgeIdle /\ BusIdle /\ PersistIdle /\ BufferIdle /\ GetIdle /\ SessionIdle /\ WdAddIdle /\ ForwardIdle /\ DevstatesIdle /\ LoopIdle

SpecRa == RaInit /\ [][RaNext]_vars

DscInit == DscStart /\ LoaderIdle /\ ConnIdle /\ TimerIdle /\ RaIdle /\ CodecIdle /\ ReaderIdle /\ DelayIdle /\ ParanoidIdle /\ BridgeIdle /\ BusIdle /\ PersistIdle /\ BufferIdle /\ GetIdle /\ SessionIdle /\ WdAddIdle /\ ForwardIdle /\ DevstatesIdle /\ LoopIdle

SpecDsc == DscInit /\ [][DscNext]_vars

CodecInit == CodecStart /\ LoaderIdle /\ ConnIdle /\ TimerIdle /\ RaIdle /\ DscIdle /\ ReaderIdle /\ DelayIdle /\ ParanoidIdle /\ BridgeIdle /\ BusIdle /\ PersistIdle /\ BufferIdle /\ GetIdle /\ SessionIdle /\ WdAddIdle /\ ForwardIdle /\ DevstatesIdle /\ LoopIdle

SpecCodec == CodecInit /\ [][CodecNext]_vars

ReaderInit == ReaderStart /\ DscMarked /\ LoaderIdle /\ ConnIdle /\ TimerIdle /\ RaIdle /\ CodecIdle /\ DelayIdle /\ ParanoidIdle /\ BridgeIdle /\ BusIdle /\ PersistIdle /\ BufferIdle /\ GetIdle /\ SessionIdle /\ WdAddIdle /\ ForwardIdle /\ DevstatesIdle /\ LoopIdle

SpecReader == ReaderInit /\ [][ReaderNext]_vars

DelayInit == DelayStart /\ LoaderIdle /\ ConnIdle /\ TimerIdle /\ RaIdle /\ DscIdle /\ CodecIdle /\ ReaderIdle /\ ParanoidIdle /\ BridgeIdle /\ BusIdle /\ PersistIdle /\ BufferIdle /\ GetIdle /\ SessionIdle /\ WdAddIdle /\ ForwardIdle /\ DevstatesIdle /\ LoopIdle

SpecDelay == DelayInit /\ [][DelayNext]_vars

ParanoidInit == ParanoidStart /\ LoaderIdle /\ ConnIdle /\ TimerIdle /\ RaIdle /\ DscIdle /\ CodecIdle /\ ReaderIdle /\ DelayIdle /\ BridgeIdle /\ BusIdle /\ PersistIdle /\ BufferIdle /\ GetIdle /\ SessionIdle /\ WdAddIdle /\ ForwardIdle /\ DevstatesIdle /\ LoopIdle

SpecParanoid == ParanoidInit /\ [][ParanoidNext]_vars

BridgeInit == BridgeStart /\ LoaderIdle /\ ConnIdle /\ TimerIdle /\ RaIdle /\ DscIdle /\ CodecIdle /\ ReaderIdle /\ DelayIdle /\ ParanoidIdle /\ BusIdle /\ PersistIdle /\ BufferIdle /\ GetIdle /\ SessionIdle /\ WdAddIdle /\ ForwardIdle /\ DevstatesIdle /\ LoopIdle

SpecBridge == BridgeInit /\ [][BridgeNext]_vars

BusInit == BusStart /\ LoaderIdle /\ ConnIdle /\ TimerIdle /\ RaIdle /\ DscIdle /\ CodecIdle /\ ReaderIdle /\ DelayIdle /\ ParanoidIdle /\ BridgeIdle /\ PersistIdle /\ BufferIdle /\ GetIdle /\ SessionIdle /\ WdAddIdle /\ ForwardIdle /\ DevstatesIdle /\ LoopIdle

SpecBus == BusInit /\ [][BusNext]_vars

DeviceMapInit == PersistStart /\ LoaderIdle /\ ConnIdle /\ TimerIdle /\ RaIdle /\ DscIdle /\ CodecIdle /\ ReaderIdle /\ DelayIdle /\ ParanoidIdle /\ BridgeIdle /\ BusIdle /\ BufferIdle /\ GetIdle /\ SessionIdle /\ WdAddIdle /\ ForwardIdle /\ DevstatesIdle /\ LoopIdle

SpecDeviceMap == DeviceMapInit /\ [][DeviceMapNext]_vars

PersistInit == PersistStartAnyOrder /\ LoaderIdle /\ ConnIdle /\ TimerIdle /\ RaIdle /\ DscIdle /\ CodecIdle /\ ReaderIdle /\ DelayIdle /\ ParanoidIdle /\ BridgeIdle /\ BusIdle /\ BufferIdle /\ GetIdle /\ SessionIdle /\ WdAddIdle /\ ForwardIdle /\ DevstatesIdle /\ LoopIdle

SpecPersist == PersistInit /\ [][PersistNext]_vars

BufferInit == BufferStart /\ LoaderIdle /\ ConnIdle /\ TimerIdle /\ RaIdle /\ DscIdle /\ CodecIdle /\ ReaderIdle /\ DelayIdle /\ ParanoidIdle /\ BridgeIdle /\ BusIdle /\ PersistIdle /\ GetIdle /\ SessionIdle /\ WdAddIdle /\ ForwardIdle /\ DevstatesIdle /\ LoopIdle

SpecBuffer == BufferInit /\ [][BufferNext]_vars

RaGetInit == RaStart /\ GetIdle /\ LoaderIdle /\ ConnIdle /\ TimerIdle /\ DscIdle /\ CodecIdle /\ ReaderIdle /\ DelayIdle /\ ParanoidIdle /\ BridgeIdle /\ BusIdle /\ PersistIdle /\ BufferIdle /\ SessionIdle /\ WdAddIdle /\ ForwardIdle /\ DevstatesIdle /\ LoopIdle

SpecRaGet == RaGetInit /\ [][RaGetNext]_vars

SessionInit == SessionStart /\ LoaderIdle /\ ConnIdle /\ TimerIdle /\ RaIdle /\ DscIdle /\ CodecIdle /\ ReaderIdle /\ DelayIdle /\ ParanoidIdle /\ BridgeIdle /\ BusIdle /\ PersistIdle /\ BufferIdle /\ GetIdle /\ WdAddIdle /\ ForwardIdle /\ DevstatesIdle /\ LoopIdle

SpecSession == SessionInit /\ [][SessionNext]_vars

WdAddInit == WdAddIdle /\ ConnIdle /\ LoaderIdle /\ TimerIdle /\ RaIdle /\ DscIdle /\ CodecIdle /\ ReaderIdle /\ DelayIdle /\ ParanoidIdle /\ BridgeIdle /\ BusIdle /\ PersistIdle /\ BufferIdle /\ GetIdle /\ SessionIdle /\ ForwardIdle /\ DevstatesIdle /\ LoopIdle

SpecWdAdd == WdAddInit /\ [][WdAddNext]_vars /\ WdAddFairness

ForwardInit == ReaderStart /\ DscMarked /\ ForwardIdle /\ LoaderIdle /\ ConnIdle /\ TimerIdle /\ RaIdle /\ CodecIdle /\ DelayIdle /\ ParanoidIdle /\ BridgeIdle /\ BusIdle /\ PersistIdle /\ BufferIdle /\ GetIdle /\ SessionIdle /\ WdAddIdle /\ DevstatesIdle /\ LoopIdle

SpecForward == ForwardInit /\ [][ForwardNext]_vars

DevstatesInit == DevstatesIdle /\ LoaderIdle /\ ConnIdle /\ TimerIdle /\ RaIdle /\ DscIdle /\ CodecIdle /\ ReaderIdle /\ DelayIdle /\ ParanoidIdle /\ BridgeIdle /\ BusIdle /\ PersistIdle /\ BufferIdle /\ GetIdle /\ SessionIdle /\ WdAddIdle /\ ForwardIdle /\ LoopIdle

SpecDevstates == DevstatesInit /\ [][DevstatesNext]_vars

LoopInit == LoopStart /\ LoaderIdle /\ ConnIdle /\ TimerIdle /\ RaIdle /\ DscIdle /\ CodecIdle /\ ReaderIdle /\ DelayIdle /\ ParanoidIdle /\ BridgeIdle /\ BusIdle /\ PersistIdle /\ BufferIdle /\ GetIdle /\ SessionIdle /\ WdAddIdle /\ ForwardIdle /\ DevstatesIdle

SpecLoop == LoopInit /\ [][LoopNext]_vars /\ LoopFairness

====
